---- MODULE Spec2Model ----
(***************************************************************************)
(* A model of the invoice processing pipeline of invoice_processor:        *)
(* file discovery, the per-file stages of process_invoices (text           *)
(* extraction, structure extraction with its two AI backends, flattening,  *)
(* archival) and the messages the batch run returns.                       *)
(*                                                                         *)
(* Strings are sequences of one-character strings, so that strip(),        *)
(* slicing, Path.stem and str-ordering are computed as Python computes     *)
(* them.  An Optional value is a sequence of length at most one: <<>> is   *)
(* None and <<v>> is the value v.                                          *)
(***************************************************************************)
EXTENDS Integers, Sequences, FiniteSets, TLC

----------------------------------------------------------------------------
(* Bounds of the model *)

\* most files the input tree holds at the start of a run
MaxFiles == 2
\* most line items a backend answer carries
MaxLineItems == 2
\* most pages a PDF is rendered to
MaxPages == 2
\* most records a report is made of
MaxRecords == 3
\* most records with amounts a financial summary is made of
MaxAmountRecords == 2

(* Program constants *)

\* extract_invoice_structure: len(text.strip()) < 20
MinTextLen == 20
\* extract_invoice_structure: text[:500]
PreviewLen == 500
\* extract_text_from_file: len(text.strip()) < 50
DirectMinLen == 50

----------------------------------------------------------------------------
(* Optional values *)

None == <<>>
Some(v) == <<v>>
IsNone(o) == o = <<>>
Get(o) == o[1]

\* str(n) for n >= 0
DigitChar(d) == CASE d = 0 -> "0" [] d = 1 -> "1" [] d = 2 -> "2" [] d = 3 -> "3"
                  [] d = 4 -> "4" [] d = 5 -> "5" [] d = 6 -> "6" [] d = 7 -> "7"
                  [] d = 8 -> "8" [] d = 9 -> "9"

RECURSIVE IntStr(_)
IntStr(n) == IF n < 10 THEN <<DigitChar(n)>>
             ELSE IntStr(n \div 10) \o <<DigitChar(n % 10)>>

----------------------------------------------------------------------------
(* Python str operations on character sequences *)

Min(a, b) == IF a < b THEN a ELSE b
Max(a, b) == IF a > b THEN a ELSE b

IsSpace(c) == c \in {" ", "\n", "\t"}

RECURSIVE LStrip(_)
LStrip(s) == IF s = <<>> THEN s
             ELSE IF IsSpace(Head(s)) THEN LStrip(Tail(s)) ELSE s

RECURSIVE RStrip(_)
RStrip(s) == IF s = <<>> THEN s
             ELSE IF IsSpace(s[Len(s)]) THEN RStrip(SubSeq(s, 1, Len(s) - 1)) ELSE s

\* str.strip()
Strip(s) == RStrip(LStrip(s))

\* s[:n]
Prefix(s, n) == SubSeq(s, 1, Min(n, Len(s)))

\* s.startswith(p)
StartsWith(s, p) == Len(p) <= Len(s) /\ SubSeq(s, 1, Len(p)) = p

\* s.rfind(c), 1-based, 0 when c does not occur
RECURSIVE RFind(_, _)
RFind(s, c) == IF s = <<>> THEN 0
               ELSE IF s[Len(s)] = c THEN Len(s)
               ELSE RFind(SubSeq(s, 1, Len(s) - 1), c)

\* str.lower() on the characters file names are built from
LowerChar(c) == CASE c = "P" -> "p" [] c = "D" -> "d" [] c = "F" -> "f"
                  [] c = "N" -> "n" [] c = "G" -> "g" [] OTHER -> c

Lower(s) == [i \in 1..Len(s) |-> LowerChar(s[i])]

\* ord(c) for the characters paths and currency codes are built from
Ord(c) == CASE c = "." -> 46 [] c = "/" -> 47
            [] c = "0" -> 48 [] c = "1" -> 49 [] c = "2" -> 50 [] c = "3" -> 51
            [] c = "D" -> 68 [] c = "E" -> 69 [] c = "F" -> 70 [] c = "G" -> 71
            [] c = "N" -> 78 [] c = "P" -> 80 [] c = "R" -> 82 [] c = "S" -> 83
            [] c = "U" -> 85 [] c = "_" -> 95
            [] c = "a" -> 97 [] c = "b" -> 98 [] c = "d" -> 100 [] c = "f" -> 102
            [] c = "g" -> 103 [] c = "i" -> 105 [] c = "n" -> 110 [] c = "p" -> 112
            [] c = "t" -> 116 [] c = "v" -> 118 [] c = "x" -> 120
            [] OTHER -> 63

\* s < t for Python strings
RECURSIVE StrLess(_, _)
StrLess(s, t) == IF t = <<>> THEN FALSE
                 ELSE IF s = <<>> THEN TRUE
                 ELSE IF Head(s) = Head(t) THEN StrLess(Tail(s), Tail(t))
                 ELSE Ord(Head(s)) < Ord(Head(t))

----------------------------------------------------------------------------
(* pathlib: a path is its sequence of components *)

\* str(path): the components joined by "/"
RECURSIVE PathStr(_)
PathStr(p) == IF Len(p) = 0 THEN <<>>
              ELSE IF Len(p) = 1 THEN p[1]
              ELSE p[1] \o <<"/">> \o PathStr(Tail(p))

\* Path(s).name: what follows the last "/"
NameOfStr(s) == SubSeq(s, RFind(s, "/") + 1, Len(s))

\* PurePath.suffix of a file name: from the last "." on, unless that "." is
\* the first or the last character
NameSuffix(name) == LET i == RFind(name, ".")
                    IN IF 1 < i /\ i < Len(name) THEN SubSeq(name, i, Len(name))
                       ELSE <<>>

\* PurePath.stem of a file name
NameStem(name) == LET i == RFind(name, ".")
                  IN IF 1 < i /\ i < Len(name) THEN SubSeq(name, 1, i - 1)
                     ELSE name

----------------------------------------------------------------------------
(* String literals of the program *)

\* "Unknown (OCR only)"
OcrOnlyVendor == <<"U", "n", "k", "n", "o", "w", "n", " ", "(", "O", "C", "R", " ", "o", "n", "l", "y", ")">>
\* "OCR Text (AI extraction failed): "
OcrTextMarker == <<"O", "C", "R", " ", "T", "e", "x", "t", " ", "(", "A", "I", " ", "e", "x", "t", "r", "a", "c", "t", "i", "o", "n", " ", "f", "a", "i", "l", "e", "d", ")", ":", " ">>
\* "..."
Ellipsis == <<".", ".", ".">>
\* "No line items found"
NoLineItems == <<"N", "o", " ", "l", "i", "n", "e", " ", "i", "t", "e", "m", "s", " ", "f", "o", "u", "n", "d">>
\* "USD"
DefaultCurrency == <<"U", "S", "D">>

----------------------------------------------------------------------------
(* models/invoice.py: the pydantic models *)

HeaderStrFields == {"invoice_number", "vendor_name", "vendor_address",
                    "vendor_tax_id", "customer_name", "customer_address",
                    "currency"}
HeaderDateFields == {"invoice_date", "due_date"}
HeaderDecimalFields == {"total_amount", "tax_amount", "subtotal"}
HeaderFields == HeaderStrFields \cup HeaderDateFields \cup HeaderDecimalFields

ItemStrFields == {"item_code"}
ItemDecimalFields == {"quantity", "unit_price", "line_total"}
ItemFields == {"item_description"} \cup ItemStrFields \cup ItemDecimalFields

(* A JSON scalar: null, a string, or a non-negative integer number *)
JNull == [k |-> "null", s |-> <<>>, n |-> 0]
JStr(str) == [k |-> "str", s |-> str, n |-> 0]
JNum(num) == [k |-> "num", s |-> <<>>, n |-> num]

(* The outcome of validating one field: ok with the field's value, or not ok *)
Valid(v) == [ok |-> TRUE, val |-> v]
Invalid == [ok |-> FALSE, val |-> None]

IsDigit(c) == c \in {"0", "1", "2", "3", "4", "5", "6", "7", "8", "9"}
DigitVal(c) == CASE c = "0" -> 0 [] c = "1" -> 1 [] c = "2" -> 2 [] c = "3" -> 3
                 [] c = "4" -> 4 [] c = "5" -> 5 [] c = "6" -> 6 [] c = "7" -> 7
                 [] c = "8" -> 8 [] c = "9" -> 9

RECURSIVE DecimalOfDigits(_)
DecimalOfDigits(s) == IF s = <<>> THEN 0
                      ELSE 10 * DecimalOfDigits(SubSeq(s, 1, Len(s) - 1))
                           + DigitVal(s[Len(s)])

\* Optional[str]: null gives None, a string gives itself, a number is refused
ValidateOptStr(j) == CASE j.k = "null" -> Valid(None)
                       [] j.k = "str" -> Valid(Some(j.s))
                       [] OTHER -> Invalid

\* Optional[Decimal]: null gives None, a number gives itself, a string is
\* parsed as a decimal and refused when it is not one
ValidateOptDecimal(j) ==
    CASE j.k = "null" -> Valid(None)
      [] j.k = "num" -> Valid(Some(j.n))
      [] OTHER -> IF j.s # <<>> /\ \A i \in 1..Len(j.s) : IsDigit(j.s[i])
                  THEN Valid(Some(DecimalOfDigits(j.s)))
                  ELSE Invalid

\* Optional[date]: null gives None, a string is taken as the date it spells
\* (the answers drawn below carry no dates), a number is refused
ValidateOptDate(j) == CASE j.k = "null" -> Valid(None)
                        [] j.k = "str" -> Valid(Some(j.s))
                        [] OTHER -> Invalid

\* The default of a header field that the keyword arguments leave out
HeaderDefault(f) == IF f = "currency" THEN Some(DefaultCurrency) ELSE None

HeaderFieldResult(kw, f) ==
    IF f \notin DOMAIN kw THEN Valid(HeaderDefault(f))
    ELSE IF f \in HeaderStrFields THEN ValidateOptStr(kw[f])
    ELSE IF f \in HeaderDateFields THEN ValidateOptDate(kw[f])
    ELSE ValidateOptDecimal(kw[f])

\* InvoiceHeader(**kw): None when pydantic raises a ValidationError
InvoiceHeader(kw) ==
    IF \A f \in HeaderFields : HeaderFieldResult(kw, f).ok
    THEN Some([f \in HeaderFields |-> HeaderFieldResult(kw, f).val])
    ELSE None

ItemFieldResult(kw, f) ==
    IF f = "item_description"
    THEN IF f \in DOMAIN kw /\ kw[f].k = "str" THEN Valid(kw[f].s) ELSE Invalid
    ELSE IF f \notin DOMAIN kw THEN Valid(None)
    ELSE IF f \in ItemStrFields THEN ValidateOptStr(kw[f])
    ELSE ValidateOptDecimal(kw[f])

\* InvoiceLineItem(**kw): None when pydantic raises a ValidationError
InvoiceLineItem(kw) ==
    IF \A f \in ItemFields : ItemFieldResult(kw, f).ok
    THEN Some([f \in ItemFields |-> ItemFieldResult(kw, f).val])
    ELSE None

\* Invoice(header=..., line_items=..., raw_text=..., file_path=...)
Invoice(header, line_items, raw_text, file_path) ==
    [header |-> header, line_items |-> line_items, raw_text |-> Some(raw_text),
     file_path |-> file_path, processing_timestamp |-> None]

----------------------------------------------------------------------------
(* extractors/ai_extractor.py *)

(* What json.loads returns: None (JSON null), a list of n elements, or a     *)
(* dict d over some of the keys "header" and "line_items".  d["header"] is   *)
(* an Optional: None for JSON null, else the keyword arguments of the        *)
(* header; d["line_items"] is None or the sequence of the items' keyword     *)
(* arguments.                                                                *)
JsonNull == [t |-> "null", n |-> 0, d |-> <<>>]
JsonList(len) == [t |-> "list", n |-> len, d |-> <<>>]
JsonDict(dict) == [t |-> "dict", n |-> 0, d |-> dict]

(* What a backend call does: the API call raises, or it returns a content    *)
(* that json.loads refuses, or one that it parses into doc.                  *)
ApiError == [kind |-> "error", json |-> FALSE, doc |-> JsonNull]
NotJson == [kind |-> "content", json |-> FALSE, doc |-> JsonNull]
Content(doc) == [kind |-> "content", json |-> TRUE, doc |-> doc]

\* bool(x) of a json.loads result
Truthy(doc) == CASE doc.t = "null" -> FALSE
                 [] doc.t = "list" -> doc.n > 0
                 [] OTHER -> DOMAIN doc.d # {}

\* `not extracted_data` for an Optional json.loads result
Falsy(data) == IsNone(data) \/ ~Truthy(Get(data))

\* The try block of extract_with_openai and of extract_with_anthropic
BackendCall(reply) ==
    IF reply.kind = "error" \/ ~reply.json \/ reply.doc.t = "null"
    THEN None
    ELSE Some(reply.doc)

ExtractWithOpenai(openai_client, reply) ==
    IF ~openai_client THEN None ELSE BackendCall(reply)

ExtractWithAnthropic(anthropic_client, reply) ==
    IF ~anthropic_client THEN None ELSE BackendCall(reply)

\* [InvoiceLineItem(**item) for item in line_items_data]: None when one raises
LineItemsOf(items_data) ==
    IF \E i \in 1..Len(items_data) : IsNone(InvoiceLineItem(items_data[i]))
    THEN None
    ELSE Some([i \in 1..Len(items_data) |-> Get(InvoiceLineItem(items_data[i]))])

\* The try block at the end of extract_invoice_data: None when it raises
ParseExtracted(doc, text, file_path) ==
    IF doc.t # "dict" THEN None
    ELSE LET header_data == IF "header" \in DOMAIN doc.d THEN doc.d["header"]
                            ELSE Some(<<>>)
             line_items_data == IF "line_items" \in DOMAIN doc.d
                                THEN doc.d["line_items"] ELSE Some(<<>>)
         IN IF IsNone(header_data) \/ IsNone(line_items_data) THEN None
            ELSE LET header == InvoiceHeader(Get(header_data))
                     line_items == LineItemsOf(Get(line_items_data))
                 IN IF IsNone(header) \/ IsNone(line_items) THEN None
                    ELSE Some(Invoice(Get(header), Get(line_items), text, file_path))

\* A faulty extract_invoice_data: it calls Anthropic whenever that client is
\* set, whatever OpenAI returned
ExtractInvoiceDataAlwaysFallsBack(openai_client, anthropic_client, text, file_path, openai_reply, anthropic_reply) ==
    LET calls1 == IF openai_client
                  THEN <<[backend |-> "openai", reply |-> openai_reply]>> ELSE <<>>
        extracted_data == IF anthropic_client
                          THEN ExtractWithAnthropic(anthropic_client, anthropic_reply)
                          ELSE ExtractWithOpenai(openai_client, openai_reply)
        calls == IF anthropic_client
                 THEN calls1 \o <<[backend |-> "anthropic", reply |-> anthropic_reply]>>
                 ELSE calls1
    IN [invoice |-> IF Falsy(extracted_data) THEN None
                    ELSE ParseExtracted(Get(extracted_data), text, file_path),
        calls |-> calls]

(* AIExtractor.extract_invoice_data: openai_reply and anthropic_reply are    *)
(* what the two backends do if they are called.  calls lists the backend     *)
(* calls made, in order, each with the backend's reply.                      *)
ExtractInvoiceData(openai_client, anthropic_client, text, file_path, openai_reply, anthropic_reply) ==
    LET first == IF openai_client
                 THEN ExtractWithOpenai(openai_client, openai_reply) ELSE None
        calls1 == IF openai_client
                  THEN <<[backend |-> "openai", reply |-> openai_reply]>> ELSE <<>>
        fallback == Falsy(first) /\ anthropic_client
        extracted_data == IF fallback
                          THEN ExtractWithAnthropic(anthropic_client, anthropic_reply)
                          ELSE first
        calls == IF fallback
                 THEN calls1 \o <<[backend |-> "anthropic", reply |-> anthropic_reply]>>
                 ELSE calls1
    IN [invoice |-> IF Falsy(extracted_data) THEN None
                    ELSE ParseExtracted(Get(extracted_data), text, file_path),
        calls |-> calls]

----------------------------------------------------------------------------
(* workflows/invoice_workflow.py: the stages *)

\* InvoiceHeader(invoice_number=filename, vendor_name="Unknown (OCR only)",
\*               total_amount=None)
PlaceholderHeader(filename) ==
    [f \in HeaderFields |->
        CASE f = "invoice_number" -> Some(filename)
          [] f = "vendor_name" -> Some(OcrOnlyVendor)
          [] OTHER -> HeaderDefault(f)]

\* A faulty placeholder line item: the text is embedded whole
PlaceholderLineItemWholeText(text) ==
    [f \in ItemFields |->
        IF f = "item_description"
        THEN OcrTextMarker \o text \o Ellipsis
        ELSE None]

\* InvoiceLineItem(item_description=f"OCR Text (AI extraction failed): {text[:500]}...")
PlaceholderLineItem(text) ==
    [f \in ItemFields |->
        IF f = "item_description"
        THEN OcrTextMarker \o Prefix(text, PreviewLen) \o Ellipsis
        ELSE None]

\* The invoice extract_invoice_structure builds when extract_invoice_data
\* returns None
PlaceholderInvoice(text, file_path) ==
    Invoice(PlaceholderHeader(NameStem(NameOfStr(file_path))),
            <<PlaceholderLineItem(text)>>, text, file_path)

\* A faulty sufficiency test: the length is taken without strip()
InsufficientTextUnstripped(text) ==
    IsNone(text) \/ Get(text) = <<>> \/ Len(Get(text)) < MinTextLen

\* `not text or len(text.strip()) < 20` for an Optional text
InsufficientText(text) ==
    IsNone(text) \/ Get(text) = <<>> \/ Len(Strip(Get(text))) < MinTextLen

\* A faulty extract_invoice_structure: it returns what extract_invoice_data
\* returned, with no placeholder invoice
ExtractInvoiceStructureNoPlaceholder(text, file_path, openai_client, anthropic_client, openai_reply, anthropic_reply) ==
    IF InsufficientText(text) THEN [invoice |-> None, calls |-> <<>>]
    ELSE ExtractInvoiceData(openai_client, anthropic_client, Get(text),
                            file_path, openai_reply, anthropic_reply)

(* extract_invoice_structure(text, file_path), with the AIExtractor's two    *)
(* clients and what the backends do if called: the invoice returned (None    *)
(* or an invoice) and the backend calls made.                                *)
ExtractInvoiceStructure(text, file_path, openai_client, anthropic_client, openai_reply, anthropic_reply) ==
    IF InsufficientText(text) THEN [invoice |-> None, calls |-> <<>>]
    ELSE LET r == ExtractInvoiceData(openai_client, anthropic_client, Get(text),
                                     file_path, openai_reply, anthropic_reply)
         IN IF IsNone(r.invoice)
            THEN [invoice |-> Some(PlaceholderInvoice(Get(text), file_path)),
                  calls |-> r.calls]
            ELSE r

----------------------------------------------------------------------------
(* extractors/pdf_extractor.py, extractors/image_extractor.py and            *)
(* extract_text_from_file.  What a library call does is an input: it raises  *)
(* or it returns a value.  The reader (PyPDF2) returns the texts of the      *)
(* pages; the rendering (pdf2image) returns the images, an image being what  *)
(* the OCR of it does; the OCR (pytesseract) returns a text; opening an      *)
(* image file (PIL) returns an image.  preprocess_image hands the OCR the    *)
(* image or a filtered one and never raises.                                 *)

Raises == [raised |-> TRUE, value |-> <<>>]
Returns(v) == [raised |-> FALSE, value |-> v]

\* text += page.extract_text() + "\n" over reader.pages
RECURSIVE JoinPages(_)
JoinPages(pages) ==
    IF pages = <<>> THEN <<>>
    ELSE pages[1] \o <<"\n">> \o JoinPages(Tail(pages))

\* PDFExtractor.extract_text(file_path)
PdfExtractText(reader) ==
    IF reader.raised THEN None
    ELSE LET stripped == Strip(JoinPages(reader.value))
         IN IF stripped # <<>> THEN Some(stripped) ELSE None

\* PDFExtractor.convert_to_images(file_path)
ConvertToImages(render) ==
    IF render.raised THEN <<>> ELSE render.value

\* ImageExtractor.extract_text_from_image(image)
ExtractTextFromImage(image) ==
    IF image.raised THEN None
    ELSE LET stripped == Strip(image.value)
         IN IF stripped # <<>> THEN Some(stripped) ELSE None

\* ImageExtractor.extract_text_from_file(file_path)
ImageExtractTextFromFile(open) ==
    IF open.raised THEN None ELSE ExtractTextFromImage(open.value)

\* f"Page {i+1}:\n{page_text}\n\n", n being i + 1
PageBlock(n, page_text) ==
    <<"P", "a", "g", "e", " ">> \o IntStr(n) \o <<":", "\n">> \o page_text
    \o <<"\n", "\n">>

\* ocr_text after the first n images of the loop over enumerate(images)
RECURSIVE OcrText(_, _)
OcrText(images, n) ==
    IF n = 0 THEN <<>>
    ELSE LET page_text == ExtractTextFromImage(images[n])
         IN OcrText(images, n - 1)
            \o (IF page_text # None /\ Get(page_text) # <<>>
                THEN PageBlock(n, Get(page_text)) ELSE <<>>)

\* `not text or len(text.strip()) < 50`
DirectInsufficient(text) ==
    text = None \/ Get(text) = <<>> \/ Len(Strip(Get(text))) < DirectMinLen

\* The library calls of extract_text_from_file on a PDF whose direct text is
\* insufficient: the reader, the rendering, the OCR of each image
OcrSteps(images) == <<"direct", "render">> \o [i \in 1..Len(images) |-> "ocr"]

\* A faulty extract_text_from_file: the direct text is dropped when the OCR
\* gives nothing
ExtractTextFromFileDropsDirect(file_path, x) ==
    IF Lower(NameSuffix(file_path[Len(file_path)])) = <<".", "p", "d", "f">>
    THEN LET text == PdfExtractText(x.reader)
             images == ConvertToImages(x.render)
             ocr_text == OcrText(images, Len(images))
         IN IF DirectInsufficient(text)
            THEN [text |-> IF Strip(ocr_text) # <<>> THEN Some(ocr_text) ELSE None,
                  steps |-> OcrSteps(images)]
            ELSE [text |-> text, steps |-> <<"direct">>]
    ELSE [text |-> ImageExtractTextFromFile(x.open),
          steps |-> IF x.open.raised THEN <<"open">> ELSE <<"open", "ocr">>]

\* A faulty extract_text_from_file: an error of any library call it makes
\* gives None
ExtractTextFromFileErrorsToNone(file_path, x) ==
    IF Lower(NameSuffix(file_path[Len(file_path)])) = <<".", "p", "d", "f">>
    THEN LET text == PdfExtractText(x.reader)
             images == ConvertToImages(x.render)
             ocr_text == OcrText(images, Len(images))
         IN IF DirectInsufficient(text)
            THEN [text |-> IF \/ x.reader.raised
                              \/ x.render.raised
                              \/ \E i \in 1..Len(images) : images[i].raised
                           THEN None
                           ELSE IF Strip(ocr_text) # <<>> THEN Some(ocr_text)
                           ELSE text,
                  steps |-> OcrSteps(images)]
            ELSE [text |-> text, steps |-> <<"direct">>]
    ELSE [text |-> ImageExtractTextFromFile(x.open),
          steps |-> IF x.open.raised THEN <<"open">> ELSE <<"open", "ocr">>]

(* extract_text_from_file(file_path), x being what the libraries do: the     *)
(* text returned and the library calls made.  Every library call is made in  *)
(* an extractor method that catches its exceptions, so none reaches the      *)
(* `except Exception` of the task.                                           *)
ExtractTextFromFile(file_path, x) ==
    IF Lower(NameSuffix(file_path[Len(file_path)])) = <<".", "p", "d", "f">>
    THEN LET text == PdfExtractText(x.reader)
             images == ConvertToImages(x.render)
             ocr_text == OcrText(images, Len(images))
         IN IF DirectInsufficient(text)
            THEN [text |-> IF images # <<>> /\ Strip(ocr_text) # <<>>
                           THEN Some(ocr_text) ELSE text,
                  steps |-> OcrSteps(images)]
            ELSE [text |-> text, steps |-> <<"direct">>]
    ELSE [text |-> ImageExtractTextFromFile(x.open),
          steps |-> IF x.open.raised THEN <<"open">> ELSE <<"open", "ocr">>]

----------------------------------------------------------------------------
(* flatten_invoice_data *)

FlatFields == HeaderFields \cup ItemFields \cup {"file_path", "processing_timestamp"}

\* The FlatInvoiceRecord of the `if not invoice.line_items` branch
HeaderOnlyRecord(invoice, processing_timestamp) ==
    [f \in FlatFields |->
        CASE f \in HeaderFields -> invoice.header[f]
          [] f = "item_description" -> NoLineItems
          [] f \in ItemFields \ {"item_description"} -> None
          [] f = "file_path" -> invoice.file_path
          [] OTHER -> Some(processing_timestamp)]

\* A faulty record for a line item: every record is built from the first
\* line item of the invoice
LineItemRecordFirstItem(invoice, line_item, processing_timestamp) ==
    [f \in FlatFields |->
        CASE f \in HeaderFields -> invoice.header[f]
          [] f \in ItemFields -> invoice.line_items[1][f]
          [] f = "file_path" -> invoice.file_path
          [] OTHER -> Some(processing_timestamp)]

\* The FlatInvoiceRecord built for one line item
LineItemRecord(invoice, line_item, processing_timestamp) ==
    [f \in FlatFields |->
        CASE f \in HeaderFields -> invoice.header[f]
          [] f \in ItemFields -> line_item[f]
          [] f = "file_path" -> invoice.file_path
          [] OTHER -> Some(processing_timestamp)]

\* A faulty flatten_invoice_data: no record for an invoice without line items
FlattenInvoiceDataNoHeaderRecord(invoice, processing_timestamp) ==
    [i \in 1..Len(invoice.line_items) |->
        LineItemRecord(invoice, invoice.line_items[i], processing_timestamp)]

\* flatten_invoice_data(invoice), processing_timestamp being datetime.now()
\* read once at the start of the call
FlattenInvoiceData(invoice, processing_timestamp) ==
    IF invoice.line_items = <<>>
    THEN <<HeaderOnlyRecord(invoice, processing_timestamp)>>
    ELSE [i \in 1..Len(invoice.line_items) |->
            LineItemRecord(invoice, invoice.line_items[i], processing_timestamp)]

----------------------------------------------------------------------------
(* utils/file_utils.py.  A path is the sequence of its components; the file  *)
(* system is the set dirs of the directories that exist and the function fs  *)
(* from the paths of the files that exist to their contents.                 *)

\* SUPPORTED_EXTENSIONS
SupportedExtensions == { <<".", "p", "d", "f">>, <<".", "p", "n", "g">>,
                         <<".", "j", "p", "g">>, <<".", "j", "p", "e", "g">>,
                         <<".", "t", "i", "f", "f">>, <<".", "b", "m", "p">> }

\* s.endswith(p)
EndsWith(s, p) == Len(p) <= Len(s) /\ SubSeq(s, Len(s) - Len(p) + 1, Len(s)) = p

\* Whether a file name matches the glob "*" + pattern; the match ignores case
\* where the platform's glob does
GlobMatches(name, pattern, glob_ignores_case) ==
    IF glob_ignores_case THEN EndsWith(Lower(name), pattern)
    ELSE EndsWith(name, pattern)

\* base in path.parents
InParents(base, path) ==
    Len(base) < Len(path) /\ SubSeq(path, 1, Len(base)) = base

\* The least path of a non-empty set under key=str
MinByStr(paths) ==
    CHOOSE p \in paths : \A q \in paths \ {p} : StrLess(PathStr(p), PathStr(q))

\* files.sort(key=str) of a set of distinct paths
RECURSIVE SortByStr(_)
SortByStr(paths) ==
    IF paths = {} THEN <<>>
    ELSE <<MinByStr(paths)>> \o SortByStr(paths \ {MinByStr(paths)})

\* get_invoice_files(directory), recursive
GetInvoiceFiles(directory, dirs, fs, glob_ignores_case) ==
    IF directory \notin dirs THEN <<>>
    ELSE SortByStr({p \in DOMAIN fs :
                       /\ InParents(directory, p)
                       /\ \E pattern \in SupportedExtensions :
                             GlobMatches(p[Len(p)], pattern, glob_ignores_case)})

\* The proper prefixes of a path and the path itself: what
\* mkdir(parents=True, exist_ok=True) makes exist
RECURSIVE WithParents(_)
WithParents(path) ==
    IF Len(path) = 0 THEN {}
    ELSE {path} \cup WithParents(SubSeq(path, 1, Len(path) - 1))

\* ensure_directory(path)
EnsureDirectory(path, dirs) == dirs \cup WithParents(path)

\* path.exists()
Exists(path, dirs, fs) == path \in dirs \/ path \in DOMAIN fs

\* original_destination.parent / f"{stem}_{counter}{suffix}"
Renamed(original_destination, counter) ==
    LET name == original_destination[Len(original_destination)]
    IN SubSeq(original_destination, 1, Len(original_destination) - 1)
       \o <<NameStem(name) \o <<"_">> \o IntStr(counter) \o NameSuffix(name)>>

\* A faulty conflict loop: the renamed destination is not tested again
FreeDestinationOnce(destination, original_destination, counter, dirs, fs) ==
    IF Exists(destination, dirs, fs)
    THEN Renamed(original_destination, counter)
    ELSE destination

\* The while loop of move_processed_file, entered with destination and counter
RECURSIVE FreeDestination(_, _, _, _, _)
FreeDestination(destination, original_destination, counter, dirs, fs) ==
    IF Exists(destination, dirs, fs)
    THEN FreeDestination(Renamed(original_destination, counter),
                         original_destination, counter + 1, dirs, fs)
    ELSE destination

\* A faulty destination: the file name alone, whatever the base directory
PlainDestinationFlat(source, processed_dir, input_base_dir) ==
    processed_dir \o <<source[Len(source)]>>

\* The destination move_processed_file computes before the conflict loop
PlainDestination(source, processed_dir, input_base_dir) ==
    IF input_base_dir # None /\ InParents(Get(input_base_dir), source)
    THEN processed_dir \o SubSeq(source, Len(Get(input_base_dir)) + 1, Len(source))
    ELSE processed_dir \o <<source[Len(source)]>>

\* The directories that exist once move_processed_file has made its two
\* ensure_directory calls
MoveDirs(source, processed_dir, input_base_dir, dirs) ==
    IF input_base_dir # None /\ InParents(Get(input_base_dir), source)
    THEN LET destination == PlainDestination(source, processed_dir, input_base_dir)
         IN EnsureDirectory(SubSeq(destination, 1, Len(destination) - 1),
                            EnsureDirectory(processed_dir, dirs))
    ELSE EnsureDirectory(processed_dir, dirs)

\* A faulty rename: the file is copied, the source stays
RenameCopies(source, destination, fs) ==
    [p \in DOMAIN fs \cup {destination} |->
        IF p = destination THEN fs[source] ELSE fs[p]]

\* fs after source.rename(destination)
Rename(source, destination, fs) ==
    [p \in (DOMAIN fs \ {source}) \cup {destination} |->
        IF p = destination THEN fs[source] ELSE fs[p]]

(* move_processed_file(source, processed_dir, input_base_dir) when no        *)
(* operating-system call fails: the destination returned and the file        *)
(* system left.                                                              *)
MoveProcessedFile(source, processed_dir, input_base_dir, dirs, fs) ==
    LET dirs2 == MoveDirs(source, processed_dir, input_base_dir, dirs)
        plain == PlainDestination(source, processed_dir, input_base_dir)
        destination == FreeDestination(plain, plain, 1, dirs2, fs)
    IN [destination |-> destination, dirs |-> dirs2,
        fs |-> Rename(source, destination, fs)]

\* What the history keeps of a call of move_processed_file that returned
MoveRecord(source, input_base_dir, m, dirs_before, fs_before) ==
    [source |-> source, input_base_dir |-> input_base_dir,
     destination |-> m.destination,
     dirs_before |-> dirs_before, fs_before |-> fs_before,
     dirs_after |-> m.dirs, fs_after |-> m.fs]

----------------------------------------------------------------------------
(* utils/summary_generator.py.  A dict is a function of its keys.  A float   *)
(* that a division gives is the fraction in lowest terms, its rounding left  *)
(* out.                                                                      *)

RECURSIVE Gcd(_, _)
Gcd(a, b) == IF b = 0 THEN a ELSE Gcd(b, a % b)

\* n / d for n >= 0 and d > 0
Ratio(n, d) == [num |-> n \div Gcd(n, d), den |-> d \div Gcd(n, d)]

\* The keys of files_data in the order the loop over records inserts them
RECURSIVE FileKeys(_)
FileKeys(records) ==
    IF records = <<>> THEN <<>>
    ELSE LET keys == FileKeys(SubSeq(records, 1, Len(records) - 1))
             file_path == records[Len(records)].file_path
         IN IF \E i \in 1..Len(keys) : keys[i] = file_path
            THEN keys ELSE Append(keys, file_path)

\* files_data[file_path]
FileRecords(records, file_path) ==
    SelectSeq(records, LAMBDA record : record.file_path = file_path)

\* A faulty classification: the test of the description comes first
ClassifyFailedFirst(first_record) ==
    IF first_record.item_description = NoLineItems THEN "failed"
    ELSE IF first_record.vendor_name = Some(OcrOnlyVendor) THEN "ocr_only"
    ELSE "successful"

\* The if / elif / else on first_record of analyze_processing_results
Classify(first_record) ==
    IF first_record.vendor_name = Some(OcrOnlyVendor) THEN "ocr_only"
    ELSE IF first_record.item_description = NoLineItems THEN "failed"
    ELSE "successful"

\* A faulty analyze_processing_results: the three counts are taken over the
\* records, not over the first record of each file
AnalyzePerRecord(records) ==
    IF records = <<>>
    THEN ("total_files" :> 0) @@ ("successful_extractions" :> 0)
         @@ ("ocr_only" :> 0) @@ ("failed_extractions" :> 0)
         @@ ("success_rate" :> Ratio(0, 1))
    ELSE LET total_files == Len(FileKeys(records))
             CountOf(status) ==
                 Cardinality({i \in 1..Len(records) : Classify(records[i]) = status})
         IN ("total_files" :> total_files)
            @@ ("successful_extractions" :> CountOf("successful"))
            @@ ("ocr_only" :> CountOf("ocr_only"))
            @@ ("failed_extractions" :> CountOf("failed"))
            @@ ("success_rate" :> Ratio(CountOf("successful") * 100, total_files))
            @@ ("total_line_items" :> Len(records))

\* InvoiceSummaryGenerator.analyze_processing_results(records)
AnalyzeProcessingResults(records) ==
    IF records = <<>>
    THEN ("total_files" :> 0) @@ ("successful_extractions" :> 0)
         @@ ("ocr_only" :> 0) @@ ("failed_extractions" :> 0)
         @@ ("success_rate" :> Ratio(0, 1))
    ELSE LET keys == FileKeys(records)
             total_files == Len(keys)
             CountOf(status) ==
                 Cardinality({i \in 1..Len(keys) :
                                 Classify(FileRecords(records, keys[i])[1]) = status})
         IN ("total_files" :> total_files)
            @@ ("successful_extractions" :> CountOf("successful"))
            @@ ("ocr_only" :> CountOf("ocr_only"))
            @@ ("failed_extractions" :> CountOf("failed"))
            @@ ("success_rate" :> IF total_files > 0
                                  THEN Ratio(CountOf("successful") * 100, total_files)
                                  ELSE Ratio(0, 1))
            @@ ("total_line_items" :> Len(records))

\* Python's truth of an Optional[Decimal]: neither None nor zero
TruthyAmount(a) == ~IsNone(a) /\ Get(a) # 0

\* Python's truth of an Optional[str]: neither None nor ""
TruthyStr(o) == ~IsNone(o) /\ Get(o) # <<>>

\* o or "N/A"
\* "N/A"
NotAvailable == <<"N", "/", "A">>
OrNotAvailable(o) == IF TruthyStr(o) THEN Get(o) ELSE NotAvailable

\* sum, min and max of a list of numbers that is not empty
RECURSIVE SumSeq(_)
SumSeq(totals) == IF totals = <<>> THEN 0 ELSE totals[1] + SumSeq(Tail(totals))
RECURSIVE MinSeq(_)
MinSeq(totals) == IF Len(totals) = 1 THEN totals[1]
                  ELSE Min(totals[1], MinSeq(Tail(totals)))
RECURSIVE MaxSeq(_)
MaxSeq(totals) == IF Len(totals) = 1 THEN totals[1]
                  ELSE Max(totals[1], MaxSeq(Tail(totals)))

\* The strings of a set from the least to the greatest
RECURSIVE SortStrs(_)
SortStrs(strs) ==
    IF strs = {} THEN <<>>
    ELSE LET least == CHOOSE s \in strs : \A t \in strs \ {s} : StrLess(s, t)
         IN <<least>> \o SortStrs(strs \ {least})

Reverse(seq) == [i \in 1..Len(seq) |-> seq[Len(seq) + 1 - i]]

(* list(s) of a set s of str.  A set iterates in the order of the hashes of  *)
(* its members, and the hash of a str depends on the seed that the           *)
(* interpreter draws when it starts (PYTHONHASHSEED): one process gives one  *)
(* order, another process may give another.  Two seeds are kept, which give  *)
(* the two orders of a set of two.                                           *)
HashSeeds == {"seed_a", "seed_b"}
ListOfSet(strs, hash_seed) ==
    IF hash_seed = "seed_a" THEN SortStrs(strs) ELSE Reverse(SortStrs(strs))

\* "No valid financial data extracted"
NoFinancialData == <<"N", "o", " ", "v", "a", "l", "i", "d", " ", "f", "i", "n", "a", "n", "c", "i", "a", "l", " ", "d", "a", "t", "a", " ", "e", "x", "t", "r", "a", "c", "t", "e", "d">>

\* The dict {}
EmptyDict == <<>>

\* A faulty condition of the valid_records comprehension: the amount alone
ValidRecordAnyAmount(r) == TruthyAmount(r.total_amount)

\* The condition of the valid_records comprehension
ValidRecord(r) ==
    /\ TruthyAmount(r.total_amount)
    /\ r.vendor_name # Some(OcrOnlyVendor)
    /\ r.item_description # NoLineItems

\* The dict invoice_totals after the loop over valid_records, as the list of
\* its items in the order the loop inserts them: the total of a file is that
\* of the first of its valid records
InvoiceTotals(valid_records) ==
    LET keys == FileKeys(valid_records)
    IN [i \in 1..Len(keys) |->
           [file_path |-> keys[i],
            total_amount |-> Get(FileRecords(valid_records, keys[i])[1].total_amount)]]

\* The set currencies after the loop over valid_records: the currency of the
\* first valid record of each file, when it is neither None nor ""
Currencies(valid_records) ==
    LET keys == FileKeys(valid_records)
    IN {Get(FileRecords(valid_records, keys[i])[1].currency) :
           i \in {j \in 1..Len(keys) :
                     TruthyStr(FileRecords(valid_records, keys[j])[1].currency)}}

\* A faulty generate_financial_summary: a total for every valid record, the
\* records of one file not merged
GenerateFinancialSummaryPerRecord(records, hash_seed) ==
    IF records = <<>> THEN EmptyDict
    ELSE LET valid_records == SelectSeq(records, ValidRecord)
         IN IF valid_records = <<>> THEN ("message" :> NoFinancialData)
            ELSE LET totals == [i \in 1..Len(valid_records) |->
                                   Get(valid_records[i].total_amount)]
                     currencies ==
                         {Get(valid_records[i].currency) :
                             i \in {j \in 1..Len(valid_records) :
                                       TruthyStr(valid_records[j].currency)}}
                 IN ("total_invoices_with_amounts" :> Len(totals))
                    @@ ("total_value" :> SumSeq(totals))
                    @@ ("average_invoice_value" :> Ratio(SumSeq(totals), Len(totals)))
                    @@ ("min_invoice" :> MinSeq(totals))
                    @@ ("max_invoice" :> MaxSeq(totals))
                    @@ ("currencies" :> ListOfSet(currencies, hash_seed))

\* InvoiceSummaryGenerator.generate_financial_summary(records), run by an
\* interpreter that drew hash_seed
GenerateFinancialSummary(records, hash_seed) ==
    IF records = <<>> THEN EmptyDict
    ELSE LET valid_records == SelectSeq(records, ValidRecord)
         IN IF valid_records = <<>> THEN ("message" :> NoFinancialData)
            ELSE LET invoice_totals == InvoiceTotals(valid_records)
                     totals == [i \in 1..Len(invoice_totals) |->
                                   invoice_totals[i].total_amount]
                 IN ("total_invoices_with_amounts" :> Len(totals))
                    @@ ("total_value" :> SumSeq(totals))
                    @@ ("average_invoice_value" :> Ratio(SumSeq(totals), Len(totals)))
                    @@ ("min_invoice" :> MinSeq(totals))
                    @@ ("max_invoice" :> MaxSeq(totals))
                    @@ ("currencies" :> ListOfSet(Currencies(valid_records), hash_seed))

\* sub in s
Contains(s, sub) ==
    \E i \in 1..(Len(s) - Len(sub) + 1) : SubSeq(s, i, i + Len(sub) - 1) = sub

\* s.replace(old, ""), old not empty
RECURSIVE Remove(_, _)
Remove(s, old) ==
    IF s = <<>> THEN s
    ELSE IF StartsWith(s, old) THEN Remove(SubSeq(s, Len(old) + 1, Len(s)), old)
    ELSE <<Head(s)>> \o Remove(Tail(s), old)

\* sep.join(strs)
RECURSIVE Join(_, _)
Join(sep, strs) ==
    IF strs = <<>> THEN <<>>
    ELSE IF Len(strs) = 1 THEN strs[1]
    ELSE strs[1] \o sep \o Join(sep, Tail(strs))

\* f"{n:.2f}" of a whole number n >= 0
Format2f(n) == IntStr(n) \o <<".", "0", "0">>

\* "data/input/"
DataInputPrefix == <<"d", "a", "t", "a", "/", "i", "n", "p", "u", "t", "/">>
\* "OCR Text"
OcrTextPrefix == <<"O", "C", "R", " ", "T", "e", "x", "t">>
\* "; "
ProductSeparator == <<";", " ">>
\* The values of "Processing Status" and of "Extraction Quality"
OcrOnlyStatus == <<"O", "C", "R", " ", "O", "n", "l", "y">>
FailedStatus == <<"F", "a", "i", "l", "e", "d">>
AiExtractedStatus == <<"A", "I", " ", "E", "x", "t", "r", "a", "c", "t", "e", "d">>
PoorQuality == <<"P", "o", "o", "r">>
NoneQuality == <<"N", "o", "n", "e">>
GoodQuality == <<"G", "o", "o", "d">>

\* The columns of the summary table
TableColumns ==
    {"File", "Invoice Number", "Date", "Vendor", "Customer", "Total Amount",
     "Line Items", "Products", "Processing Status", "Extraction Quality"}

\* The if / elif / else on first_record of generate_invoice_summary_table:
\* status and extraction_quality
TableStatus(first_record) ==
    IF first_record.vendor_name = Some(OcrOnlyVendor)
    THEN <<OcrOnlyStatus, PoorQuality>>
    ELSE IF first_record.item_description = NoLineItems
    THEN <<FailedStatus, NoneQuality>>
    ELSE <<AiExtractedStatus, GoodQuality>>

\* The list products of the descriptions of the records of a file: those not
\* empty, not "No line items found" and not starting with "OCR Text"
RECURSIVE Products(_)
Products(file_records) ==
    IF file_records = <<>> THEN <<>>
    ELSE LET d == file_records[1].item_description
         IN (IF d # <<>> /\ d # NoLineItems /\ ~StartsWith(d, OcrTextPrefix)
             THEN <<d>> ELSE <<>>)
            \o Products(Tail(file_records))

\* The value of "Products"
ProductsCell(products) ==
    IF products # <<>>
    THEN Join(ProductSeparator, Prefix(products, 2))
         \o (IF Len(products) > 2 THEN Ellipsis ELSE <<>>)
    ELSE NotAvailable

\* file_display
FileDisplay(file_path) ==
    IF Contains(file_path, DataInputPrefix) THEN Remove(file_path, DataInputPrefix)
    ELSE NameOfStr(file_path)

\* The value of "Total Amount"
TotalAmountCell(first_record) ==
    LET total_amount == IF TruthyAmount(first_record.total_amount)
                        THEN Get(first_record.total_amount) ELSE 0
    IN IF total_amount # 0
       THEN (IF TruthyStr(first_record.currency) THEN Get(first_record.currency)
             ELSE <<>>)
            \o <<" ">> \o Format2f(total_amount)
       ELSE NotAvailable

\* invoice_summary, the row of the table of a file with these records
InvoiceSummary(file_path, file_records) ==
    LET first_record == file_records[1]
    IN [c \in TableColumns |->
          CASE c = "File" -> FileDisplay(file_path)
            [] c = "Invoice Number" -> OrNotAvailable(first_record.invoice_number)
            [] c = "Date" -> OrNotAvailable(first_record.invoice_date)
            [] c = "Vendor" -> OrNotAvailable(first_record.vendor_name)
            [] c = "Customer" -> OrNotAvailable(first_record.customer_name)
            [] c = "Total Amount" -> TotalAmountCell(first_record)
            [] c = "Line Items" -> Len(file_records)
            [] c = "Products" -> ProductsCell(Products(file_records))
            [] c = "Processing Status" -> TableStatus(first_record)[1]
            [] OTHER -> TableStatus(first_record)[2]]

\* A faulty generate_invoice_summary_table: a row for every record
GenerateInvoiceSummaryTablePerRecord(records) ==
    [i \in 1..Len(records) |-> InvoiceSummary(records[i].file_path, <<records[i]>>)]

\* InvoiceSummaryGenerator.generate_invoice_summary_table(records): the rows
\* of the DataFrame, none for the empty DataFrame
GenerateInvoiceSummaryTable(records) ==
    IF records = <<>> THEN <<>>
    ELSE LET keys == FileKeys(records)
         IN [i \in 1..Len(keys) |->
                InvoiceSummary(keys[i], FileRecords(records, keys[i]))]

(* generate_detailed_summary_report.  The report and its lines are strings;  *)
(* Str gives the string of a character sequence.                            *)
RECURSIVE Str(_)
Str(s) == IF s = <<>> THEN "" ELSE s[1] \o Str(Tail(s))

\* "\n".join(lines)
RECURSIVE JoinLines(_)
JoinLines(lines) ==
    IF lines = <<>> THEN ""
    ELSE IF Len(lines) = 1 THEN lines[1]
    ELSE lines[1] \o "\n" \o JoinLines(Tail(lines))

\* "=" * 80 and "-" * 40
Rule80 == "================================================================================"
Rule40 == "----------------------------------------"

(* round(r * scale) of a fraction r >= 0, a tie going to the even side; what *)
(* the binary representation of the float adds to it is left out            *)
Rounded(r, scale) ==
    LET q == (r.num * scale) \div r.den
        rem == (r.num * scale) % r.den
    IN IF 2 * rem > r.den \/ (2 * rem = r.den /\ q % 2 = 1) THEN q + 1 ELSE q

\* f"{r:.1f}" and f"{r:.2f}" of a fraction r >= 0
Format1f(r) ==
    IntStr(Rounded(r, 10) \div 10) \o <<".", DigitChar(Rounded(r, 10) % 10)>>
Format2fRatio(r) ==
    IntStr(Rounded(r, 100) \div 100)
    \o <<".", DigitChar((Rounded(r, 100) \div 10) % 10), DigitChar(Rounded(r, 100) % 10)>>

\* The columns of the summary table in the order the dict invoice_summary
\* has them
TableColumnOrder ==
    <<"File", "Invoice Number", "Date", "Vendor", "Customer", "Total Amount",
      "Line Items", "Products", "Processing Status", "Extraction Quality">>

\* " " * n
RECURSIVE Spaces(_)
Spaces(n) == IF n <= 0 THEN "" ELSE " " \o Spaces(n - 1)

(* DataFrame.to_string(index=False, max_cols=None, max_colwidth=30): a line  *)
(* of column names and a line for each row; a cell longer than 30           *)
(* characters is cut to 27 and "..."; every column is as wide as its        *)
(* longest entry, the entries pushed to the right, the columns a space      *)
(* apart.                                                                    *)
CellText(row, c) ==
    LET cell == IF c = "Line Items" THEN IntStr(row[c]) ELSE row[c]
    IN IF Len(cell) > 30 THEN Str(SubSeq(cell, 1, 27)) \o "..." ELSE Str(cell)
ColumnWidth(entries, c) ==
    LET widths == {Len(entries[i][c]) : i \in 1..Len(entries)}
    IN CHOOSE w \in widths : \A v \in widths : v <= w
RECURSIVE TableLine(_, _, _)
TableLine(widths, entry, k) ==
    LET c == TableColumnOrder[k]
        padded == Spaces(widths[c] - Len(entry[c])) \o entry[c]
    IN IF k = Len(TableColumnOrder) THEN padded
       ELSE padded \o " " \o TableLine(widths, entry, k + 1)
DataFrameToString(table) ==
    LET entries == <<[c \in TableColumns |-> c]>>
                   \o [i \in 1..Len(table) |->
                          [c \in TableColumns |-> CellText(table[i], c)]]
        widths == [c \in TableColumns |-> ColumnWidth(entries, c)]
    IN JoinLines([i \in 1..Len(entries) |-> TableLine(widths, entries[i], 1)])

(* Series.value_counts(): the distinct values with the number of their      *)
(* occurrences, the most frequent first, values as frequent as each other   *)
(* in the order of their first occurrence.                                  *)
RECURSIVE DistinctValues(_)
DistinctValues(values) ==
    IF values = <<>> THEN <<>>
    ELSE LET rest == DistinctValues(SubSeq(values, 1, Len(values) - 1))
             v == values[Len(values)]
         IN IF \E i \in 1..Len(rest) : rest[i] = v THEN rest ELSE Append(rest, v)
CountIn(values, v) == Cardinality({i \in 1..Len(values) : values[i] = v})
RECURSIVE MostFrequentFirst(_, _)
MostFrequentFirst(values, distinct) ==
    IF distinct = <<>> THEN <<>>
    ELSE LET k == CHOOSE k \in 1..Len(distinct) :
                     /\ \A j \in 1..Len(distinct) :
                           CountIn(values, distinct[j]) <= CountIn(values, distinct[k])
                     /\ \A j \in 1..(k - 1) :
                           CountIn(values, distinct[j]) < CountIn(values, distinct[k])
         IN <<[value |-> distinct[k], count |-> CountIn(values, distinct[k])]>>
            \o MostFrequentFirst(values,
                                 SubSeq(distinct, 1, k - 1)
                                 \o SubSeq(distinct, k + 1, Len(distinct)))
ValueCounts(values) == MostFrequentFirst(values, DistinctValues(values))

\* The lines of the financial summary, when it has numbers
FinancialLines(financial_summary) ==
    IF "total_value" \in DOMAIN financial_summary
    THEN LET currencies_str ==
                 IF financial_summary.currencies # <<>>
                 THEN Str(Join(<<",", " ">>, financial_summary.currencies))
                 ELSE "Mixed"
         IN << "FINANCIAL SUMMARY",
               Rule40,
               "Invoices with Valid Amounts: "
                   \o Str(IntStr(financial_summary.total_invoices_with_amounts)),
               "Total Value: " \o Str(Format2f(financial_summary.total_value))
                   \o " (" \o currencies_str \o ")",
               "Average Invoice Value: "
                   \o Str(Format2fRatio(financial_summary.average_invoice_value)),
               "Smallest Invoice: " \o Str(Format2f(financial_summary.min_invoice)),
               "Largest Invoice: " \o Str(Format2f(financial_summary.max_invoice)),
               "" >>
    ELSE <<>>

\* The lines of the table and of the two breakdowns
BreakdownLines(summary_table) ==
    LET Column(c) == [i \in 1..Len(summary_table) |-> summary_table[i][c]]
        status_counts == ValueCounts(Column("Processing Status"))
        quality_counts == ValueCounts(Column("Extraction Quality"))
    IN (IF summary_table # <<>>
        THEN <<"DETAILED INVOICE SUMMARY", Rule40, "", DataFrameToString(summary_table), "">>
        ELSE <<>>)
       \o <<"PROCESSING STATUS BREAKDOWN", Rule40, "">>
       \o (IF summary_table # <<>>
           THEN [i \in 1..Len(status_counts) |->
                    Str(status_counts[i].value) \o ": "
                        \o Str(IntStr(status_counts[i].count)) \o " files"]
                \o <<"", "Extraction Quality:">>
                \o [i \in 1..Len(quality_counts) |->
                       "  " \o Str(quality_counts[i].value) \o ": "
                           \o Str(IntStr(quality_counts[i].count)) \o " files"]
           ELSE <<>>)

(* InvoiceSummaryGenerator.generate_detailed_summary_report(records,         *)
(* processing_stats, csv_file_path), timestamp being what the clock reads   *)
(* and hash_seed what the interpreter drew: the text, or the KeyError of    *)
(* processing_stats['total_line_items']                                     *)
GenerateDetailedSummaryReport(records, processing_stats, csv_file_path, timestamp, hash_seed) ==
    IF "total_line_items" \notin DOMAIN processing_stats THEN Raises
    ELSE Returns(JoinLines(
            << Rule80,
               "INVOICE PROCESSING SUMMARY REPORT",
               Rule80,
               "Generated: " \o Str(timestamp),
               "CSV Output: " \o Str(csv_file_path),
               "",
               "PROCESSING OVERVIEW",
               Rule40,
               "Total Files Processed: " \o Str(IntStr(processing_stats.total_files)),
               "Successfully Extracted (AI): "
                   \o Str(IntStr(processing_stats.successful_extractions)),
               "OCR Fallback Only: " \o Str(IntStr(processing_stats.ocr_only)),
               "Failed Extractions: " \o Str(IntStr(processing_stats.failed_extractions)),
               "Overall Success Rate: " \o Str(Format1f(processing_stats.success_rate))
                   \o "%",
               "Total Line Items: " \o Str(IntStr(processing_stats.total_line_items)),
               "" >>
            \o FinancialLines(GenerateFinancialSummary(records, hash_seed))
            \o BreakdownLines(GenerateInvoiceSummaryTable(records))
            \o <<"", Rule80, "End of Report", Rule80>>))

----------------------------------------------------------------------------
(* The inputs the model draws *)

\* "in", the input directory, and "proc", the processed directory
InputDir == << <<"i", "n">> >>
ProcessedDir == << <<"p", "r", "o", "c">> >>

NameA == <<"a", ".", "p", "d", "f">>
NameB == <<"b", ".", "P", "N", "G">>
NameC == <<"c", ".", "v", "1", ".", "p", "d", "f">>
NameN == <<"n", ".", "t", "x", "t">>
DirV == <<"v">>

\* The files an input tree may hold: in/a.pdf, in/b.PNG, in/v/a.pdf, in/n.txt
InputUniverse == { InputDir \o <<NameA>>, InputDir \o <<NameB>>,
                   InputDir \o <<DirV, NameA>>, InputDir \o <<NameN>> }

\* What the processed directory may hold from earlier runs: nothing, or
\* proc/a.pdf
ArchiveUniverse == { {}, {ProcessedDir \o <<NameA>>} }

OldContent == <<"o", "l", "d">>

NameA1 == <<"a", "_", "1", ".", "p", "d", "f">>
DirW == <<"w">>

\* The files move_processed_file is called for on its own: three of the same
\* name in different directories, and one with two dots in its name
MoveSources == { InputDir \o <<NameA>>, InputDir \o <<DirV, NameA>>,
                 InputDir \o <<DirW, NameA>>, InputDir \o <<DirV, NameC>> }

\* What the processed directory may hold before those calls
MoveArchiveUniverse == SUBSET { ProcessedDir \o <<NameA>>, ProcessedDir \o <<NameA1>>,
                                ProcessedDir \o <<DirV, NameA>> }

\* The input_base_dir arguments of those calls
MoveBaseDirs == { None, Some(InputDir), Some(InputDir \o <<DirV>>) }

\* The directories of a set of files
DirsOf(files) == UNION { WithParents(SubSeq(p, 1, Len(p) - 1)) : p \in files }

\* A text of n characters that are not white space, the i-th one the digit i % 10
TextOfLen(n) == [i \in 1..n |-> DigitChar(i % 10)]
Padded(str) == <<" ">> \o str \o <<"\n">>

\* The texts the text extraction stage may return in a batch run
BatchTexts == { <<>>, <<" ", "\n">>, Padded(TextOfLen(MinTextLen - 1)),
                TextOfLen(MinTextLen) }

NameU == <<"u", ".", "P", "D", "F">>
Ok == <<"o", "k">>

\* What the reader of a PDF may do: raise, find no page, a blank page, a
\* page of 49 characters (with and without white space around them), a page
\* of 50, two pages that make 50 characters with the line break between them
ReaderReplies ==
    { Raises, Returns(<<>>), Returns(<< <<" ">> >>),
      Returns(<<TextOfLen(DirectMinLen - 1)>>),
      Returns(<<Padded(TextOfLen(DirectMinLen - 1))>>),
      Returns(<<TextOfLen(DirectMinLen)>>),
      Returns(<<TextOfLen(DirectMinLen - 25), TextOfLen(24)>>) }

\* What the OCR of an image may do: raise, find nothing, find a text
OcrReplies == { Raises, Returns(<<>>), Returns(Padded(Ok)) }

\* What the rendering of a PDF may do: raise, or give at most MaxPages images
RenderReplies ==
    {Raises} \cup { Returns(images) :
                      images \in UNION { [1..k -> OcrReplies] : k \in 0..MaxPages } }

\* What opening an image file may do
OpenReplies == {Raises} \cup { Returns(image) : image \in OcrReplies }

\* What the libraries may do in a call of extract_text_from_file
TextExtractions == [reader : ReaderReplies, render : RenderReplies, open : OpenReplies]

\* The paths extract_text_from_file is called with
TextPaths == { InputDir \o <<NameA>>, InputDir \o <<NameU>>, InputDir \o <<NameB>> }

\* The libraries all raise
AllRaise == [reader |-> Raises, render |-> Raises, open |-> Raises]

\* What the libraries may do for a file of a batch run.  For a PDF: a direct
\* text of 50 characters; a direct text of 19 characters and a rendering
\* that raises; nothing but errors.  For an image: the file does not open;
\* the OCR gives a text.
BatchExtractions(file_path) ==
    IF Lower(NameSuffix(file_path[Len(file_path)])) = <<".", "p", "d", "f">>
    THEN { [AllRaise EXCEPT !.reader = Returns(<<TextOfLen(DirectMinLen)>>)],
           [AllRaise EXCEPT !.reader = Returns(<<TextOfLen(MinTextLen - 1)>>)],
           AllRaise }
    ELSE { AllRaise,
           [AllRaise EXCEPT !.open = Returns(Returns(TextOfLen(MinTextLen)))] }

\* The texts extract_invoice_structure is called with
StageTexts == BatchTexts \cup
    { Padded(TextOfLen(MinTextLen)),
      TextOfLen(MinTextLen - 12) \o <<" ", " ">> \o TextOfLen(10),
      TextOfLen(PreviewLen), TextOfLen(PreviewLen + 1) }

\* The paths extract_invoice_structure is called with
StagePaths == { InputDir \o <<NameA>>, InputDir \o <<NameB>>,
                InputDir \o <<DirV, NameC>> }

Acme == <<"A", "C", "M", "E">>
Widget == <<"W", "i", "d", "g", "e", "t">>
Gadget == <<"G", "a", "d", "g", "e", "t">>

\* The FlatInvoiceRecord of a file with a vendor name and a description, the
\* other fields at their defaults
ReportRecord(file_path, vendor_name, item_description) ==
    [f \in FlatFields |->
        CASE f = "file_path" -> file_path
          [] f = "vendor_name" -> vendor_name
          [] f = "item_description" -> item_description
          [] f = "currency" -> Some(DefaultCurrency)
          [] OTHER -> None]

\* The records the reports are made of: of three files, with the vendor a
\* name or the OCR-only sentinel and the description a product or the "No
\* line items found" sentinel
ReportRecords ==
    { ReportRecord(PathStr(p), Some(v), d) :
        p \in {InputDir \o <<NameA>>, InputDir \o <<NameB>>, InputDir \o <<DirV, NameA>>},
        v \in {Acme, OcrOnlyVendor}, d \in {Widget, NoLineItems} }

\* The record lists the reports are made of, of at most MaxRecords records
ReportRecordLists == UNION { [1..k -> ReportRecords] : k \in 0..MaxRecords }

\* "EUR"
Euro == <<"E", "U", "R">>
Gizmo == <<"G", "i", "z", "m", "o">>
\* The description of a placeholder line item
OcrTextDescription == OcrTextMarker \o <<"x">> \o Ellipsis

\* "data/input", the default input directory
DataInputDir == << <<"d", "a", "t", "a">>, <<"i", "n", "p", "u", "t">> >>

\* The FlatInvoiceRecord of a file with a vendor name, a description, a total
\* amount and a currency, the other fields at their defaults
AmountRecord(file_path, vendor_name, item_description, total_amount, currency) ==
    [ReportRecord(file_path, vendor_name, item_description)
        EXCEPT !.total_amount = total_amount, !.currency = currency]

\* The total amounts and currencies of the records with amounts: no amount,
\* a zero amount, amounts in two currencies, in no currency and in currency ""
Amounts ==
    { <<None, Some(DefaultCurrency)>>, <<Some(0), Some(Euro)>>,
      <<Some(100), Some(Euro)>>, <<Some(200), Some(Euro)>>,
      <<Some(200), Some(DefaultCurrency)>>,
      <<Some(200), None>>, <<Some(100), Some(<<>>)>> }

\* The records with amounts, of two files: with neither sentinel and any of
\* the amounts, or with one of the sentinels and an amount
AmountRecords ==
    { AmountRecord(PathStr(p), Some(Acme), Widget, a[1], a[2]) :
        p \in {InputDir \o <<NameA>>, InputDir \o <<NameB>>}, a \in Amounts }
    \cup
    { AmountRecord(PathStr(p), Some(k[1]), k[2], Some(100), Some(Euro)) :
        p \in {InputDir \o <<NameA>>, InputDir \o <<NameB>>},
        k \in {<<Acme, NoLineItems>>, <<OcrOnlyVendor, Widget>>} }

\* The records with products, of two files, one under "data/input": three
\* products and the two descriptions that are no product
ProductRecords ==
    { ReportRecord(PathStr(p), Some(Acme), d) :
        p \in {InputDir \o <<NameA>>, DataInputDir \o <<DirV, NameA>>},
        d \in {Widget, Gadget, Gizmo, NoLineItems, OcrTextDescription} }

\* The records the saved reports are made of, of two files: with neither
\* sentinel and an amount in one of two currencies or no amount, a
\* placeholder record and a record without line items
RenderRecords ==
    { AmountRecord(PathStr(p), Some(Acme), Widget, a[1], a[2]) :
        p \in {InputDir \o <<NameA>>, DataInputDir \o <<DirV, NameA>>},
        a \in { <<Some(100), Some(Euro)>>, <<Some(200), Some(DefaultCurrency)>>,
                <<None, Some(DefaultCurrency)>> } }
    \cup
    { ReportRecord(PathStr(InputDir \o <<NameA>>), Some(OcrOnlyVendor),
                   OcrTextDescription),
      ReportRecord(PathStr(DataInputDir \o <<DirV, NameA>>), Some(Acme), NoLineItems) }

\* The record lists the saved reports are made of
RenderRecordLists == UNION { [1..k -> RenderRecords] : k \in 0..MaxAmountRecords }

\* The record lists the summaries are made of
SummaryRecordLists ==
    UNION { [1..k -> AmountRecords] : k \in 0..MaxAmountRecords }
    \cup UNION { [1..k -> ProductRecords] : k \in 0..MaxRecords }

\* Header objects of backend answers
HeaderAcme == ("invoice_number" :> JStr(<<"7">>)) @@ ("vendor_name" :> JStr(Acme))
              @@ ("total_amount" :> JNum(100)) @@ ("currency" :> JNull)
HeaderStrAmount == ("vendor_name" :> JStr(OcrOnlyVendor))
                   @@ ("total_amount" :> JStr(<<"2", "5">>))
HeaderBadAmount == ("vendor_name" :> JStr(Acme))
                   @@ ("total_amount" :> JStr(<<"a", "b">>))

\* Line item objects of backend answers
ItemWidget == ("item_description" :> JStr(Widget)) @@ ("quantity" :> JNum(2))
              @@ ("line_total" :> JNum(100))
ItemGadget == ("item_description" :> JStr(Gadget)) @@ ("item_code" :> JNull)
ItemNoDescription == ("quantity" :> JNum(1))

\* The line item lists that validate, of at most MaxLineItems items
ValidItemLists == UNION { [1..k -> {ItemWidget, ItemGadget}] : k \in 0..MaxLineItems }
\* Line item lists with an item that lacks its description
InvalidItemLists == { <<ItemNoDescription>>, <<ItemWidget, ItemNoDescription>> }

AnswerOf(header, items) ==
    Content(JsonDict(("header" :> Some(header)) @@ ("line_items" :> Some(items))))

\* What a backend may do in a call of extract_invoice_structure
StageReplies ==
    { ApiError, NotJson, Content(JsonNull), Content(JsonDict(<<>>)),
      Content(JsonList(0)), Content(JsonList(1)),
      Content(JsonDict(("header" :> None) @@ ("line_items" :> Some(<<>>)))),
      Content(JsonDict("header" :> Some(HeaderAcme))),
      Content(JsonDict("line_items" :> Some(<<ItemGadget>>))),
      Content(JsonDict(("header" :> Some(HeaderAcme)) @@ ("line_items" :> None))),
      AnswerOf(HeaderBadAmount, <<ItemWidget>>),
      AnswerOf(HeaderStrAmount, <<ItemWidget>>) }
    \cup { AnswerOf(HeaderAcme, items) : items \in ValidItemLists \cup InvalidItemLists }

\* What a backend may do in a batch run
BatchReplies ==
    { ApiError, Content(JsonDict(<<>>)), AnswerOf(HeaderAcme, <<ItemNoDescription>>),
      AnswerOf(HeaderAcme, <<>>), AnswerOf(HeaderAcme, <<ItemWidget, ItemGadget>>) }

----------------------------------------------------------------------------
(* The state *)

VARIABLES
    dirs,               \* the directories that exist
    fs,                 \* the files that exist: path -> content
    glob_ignores_case,  \* whether the platform's rglob ignores case
    openai_client,      \* AIExtractor.openai_client is set
    anthropic_client,   \* AIExtractor.anthropic_client is set
    pc,                 \* where process_invoices (or a single stage call) is
    invoice_files,      \* process_invoices: the discovered files
    idx,                \* the index in invoice_files of the loop's file_path
    now,                \* the clock, read by flatten_invoice_data
    text,               \* process_invoices: text
    invoice,            \* process_invoices: invoice
    flat_records,       \* process_invoices: flat_records
    backend_calls,      \* the backend calls of the last extract_invoice_data
    all_flat_records,   \* process_invoices: all_flat_records
    processed_count,    \* process_invoices: processed_count
    result,             \* the message process_invoices returned, if it has
    outputs,            \* the output files written: csv, report, table
    outcomes,           \* history: how the loop body ended for each file so far
    extraction,         \* what the PDF and OCR libraries do in a call of
                        \* extract_text_from_file made on its own
    texts,              \* history: the calls of extract_text_from_file
    moves,              \* history: the calls of move_processed_file
    stats,              \* what analyze_processing_results returned, if called
    financial_summary,  \* what generate_financial_summary returned, if called
    summary_table,      \* what generate_invoice_summary_table returned, if called
    reports,            \* history: the calls of generate_detailed_summary_report
    movers,             \* the calls of move_processed_file that run side by side
    attempt             \* the runs of the task in progress that raised so far

vars == <<dirs, fs, glob_ignores_case, openai_client, anthropic_client, pc,
          invoice_files, idx, now, text, invoice, flat_records, backend_calls,
          all_flat_records, processed_count, result, outputs, outcomes,
          extraction, texts, moves, stats, financial_summary,
          summary_table, reports, movers, attempt>>

env_vars == <<glob_ignores_case, openai_client, anthropic_client>>

\* What the history keeps of a call of extract_text_from_file that returned r
TextRecord(file_path, x, r) ==
    [file |-> file_path, x |-> x, text |-> r.text, steps |-> r.steps,
     raised |-> FALSE]

(* The messages process_invoices returns, by kind and the numbers they embed *)
\* f"No invoice files found in {input_dir}"
NoFilesMessage == [kind |-> "no_files", files |-> 0, rows |-> 0]
\* f"No invoices were successfully processed from {len(invoice_files)} files"
NoneProcessedMessage(n_files) == [kind |-> "none_processed", files |-> n_files, rows |-> 0]
\* f"Successfully processed {processed_count} invoices with
\*   {len(all_flat_records)} total line items. ..."
SuccessMessage(count, n_rows) == [kind |-> "success", files |-> count, rows |-> n_rows]

\* The input trees a run may start from: at most MaxFiles files
InputTrees == { t \in SUBSET InputUniverse : Cardinality(t) <= MaxFiles }

\* The file system holding the input tree t and the archived files a
InitialFs(t, a) ==
    [p \in t \cup a |-> IF p \in t THEN PathStr(p) ELSE OldContent]

\* The state of the locals before process_invoices assigns them
LocalsInit ==
    /\ invoice_files = <<>>
    /\ idx = 0
    /\ now = 0
    /\ text = None
    /\ invoice = None
    /\ flat_records = <<>>
    /\ backend_calls = <<>>
    /\ all_flat_records = <<>>
    /\ processed_count = 0
    /\ result = None
    /\ outputs = {}
    /\ outcomes = <<>>
    /\ extraction = None
    /\ texts = <<>>
    /\ moves = <<>>
    /\ stats = None
    /\ financial_summary = None
    /\ summary_table = None
    /\ reports = <<>>
    /\ movers = <<>>
    /\ attempt = 0

(* A batch run starts with an input directory that is missing, or that holds *)
(* some files, with or without an archive of earlier runs, and with any of   *)
(* the two API keys set.                                                     *)
Init ==
    /\ \E t \in InputTrees, a \in ArchiveUniverse, input_exists \in BOOLEAN :
          /\ input_exists \/ t = {}
          /\ fs = InitialFs(t, a)
          /\ dirs = (IF input_exists THEN {InputDir} ELSE {})
                    \cup (IF a = {} THEN {} ELSE {ProcessedDir})
    /\ glob_ignores_case \in BOOLEAN
    /\ openai_client \in BOOLEAN
    /\ anthropic_client \in BOOLEAN
    /\ pc = "start"
    /\ LocalsInit

----------------------------------------------------------------------------
(* process_invoices, one action per stage of the flow *)

\* The kinds of outcome of the loop body that are an exception caught by
\* `except Exception`
RaisedKinds == {"text_raised", "structure_raised", "flatten_raised", "move_raised"}

\* A faulty loop: an exception of the loop body leaves the flow
EndIterationAborting(kind) ==
    /\ outcomes' = Append(outcomes, [file |-> invoice_files[idx], kind |-> kind])
    /\ idx' = (IF kind \notin RaisedKinds /\ idx < Len(invoice_files)
               THEN idx + 1 ELSE idx)
    /\ pc' = (IF kind \in RaisedKinds THEN "raised"
              ELSE IF idx < Len(invoice_files) THEN "text" ELSE "save")

(* The end of one pass of the loop body, by `continue`, by the except clause *)
(* or by reaching the end of the try block: the for loop takes the next file *)
(* or, after the last one, control reaches the code after the loop.          *)
EndIteration(kind) ==
    /\ outcomes' = Append(outcomes, [file |-> invoice_files[idx], kind |-> kind])
    /\ IF idx < Len(invoice_files)
       THEN idx' = idx + 1 /\ pc' = "text"
       ELSE idx' = idx /\ pc' = "save"

\* A faulty start of the flow: no early return when no file is found
DiscoverNoEarlyReturn ==
    /\ pc = "start"
    /\ LET files == GetInvoiceFiles(InputDir, dirs, fs, glob_ignores_case)
       IN /\ invoice_files' = files
          /\ result' = result
          /\ IF files = <<>>
             THEN pc' = "save" /\ idx' = idx
             ELSE pc' = "text" /\ idx' = 1
    /\ UNCHANGED <<dirs, fs, env_vars, now, text, invoice, flat_records,
                   backend_calls, all_flat_records, processed_count, outputs,
                   outcomes>>
    /\ UNCHANGED <<extraction, texts, moves, stats>>
    /\ UNCHANGED <<financial_summary, summary_table, reports, movers, attempt>>

\* invoice_files = get_invoice_files(input_path) and the early return
Discover ==
    /\ pc = "start"
    /\ LET files == GetInvoiceFiles(InputDir, dirs, fs, glob_ignores_case)
       IN /\ invoice_files' = files
          /\ IF files = <<>>
             THEN /\ result' = Some(NoFilesMessage)
                  /\ pc' = "done"
                  /\ idx' = idx
             ELSE /\ result' = result
                  /\ pc' = "text"
                  /\ idx' = 1
    /\ UNCHANGED <<dirs, fs, env_vars, now, text, invoice, flat_records,
                   backend_calls, all_flat_records, processed_count, outputs,
                   outcomes>>
    /\ UNCHANGED <<extraction, texts, moves, stats>>
    /\ UNCHANGED <<financial_summary, summary_table, reports, movers, attempt>>

\* The retries of the task decorators
TextRetries == 2
StructureRetries == 1

\* A run of a task raised: the task engine runs it again while it has
\* retries left, the loop's locals untouched
RetryTask ==
    /\ attempt' = attempt + 1
    /\ UNCHANGED <<pc, idx, outcomes, now, text, texts, invoice, backend_calls>>

\* text = extract_text_from_file(file_path) and `if not text: continue`.
\* The task returns None or a text.  Its body catches every Exception, so a
\* run that raises is one in which the task engine itself fails; the same
\* holds for the calls of the two other tasks below.  A run that raises is
\* repeated up to TextRetries times before the call raises.
ExtractText ==
    /\ pc = "text"
    /\ \/ /\ attempt < TextRetries
          /\ RetryTask
       \/ /\ attempt = TextRetries
          /\ attempt' = 0
          /\ now' = now + 1
          /\ text' = text
          /\ texts' = Append(texts, [file |-> invoice_files[idx], x |-> AllRaise,
                                      text |-> None, steps |-> <<>>,
                                      raised |-> TRUE])
          /\ EndIteration("text_raised")
       \/ \E x \in BatchExtractions(invoice_files[idx]) :
             LET r == ExtractTextFromFile(invoice_files[idx], x)
             IN /\ attempt' = 0
                /\ now' = now + 1
                /\ text' = r.text
                /\ texts' = Append(texts, TextRecord(invoice_files[idx], x, r))
                /\ IF IsNone(r.text) \/ Get(r.text) = <<>>
                   THEN EndIteration("no_text")
                   ELSE pc' = "structure" /\ UNCHANGED <<idx, outcomes>>
    /\ UNCHANGED <<dirs, fs, env_vars, invoice_files, invoice, flat_records,
                   backend_calls, all_flat_records, processed_count, result,
                   outputs>>
    /\ UNCHANGED <<extraction, moves, stats>>
    /\ UNCHANGED <<financial_summary, summary_table, reports, movers>>

\* invoice = extract_invoice_structure(text, str(file_path)) and
\* `if not invoice: continue`.  A run that raises is repeated up to
\* StructureRetries times before the call raises.
ExtractStructure ==
    /\ pc = "structure"
    /\ \/ /\ attempt < StructureRetries
          /\ RetryTask
       \/ /\ attempt = StructureRetries
          /\ attempt' = 0
          /\ UNCHANGED <<invoice, backend_calls>>
          /\ EndIteration("structure_raised")
       \/ \E openai_reply \in (IF openai_client THEN BatchReplies ELSE {ApiError}),
             anthropic_reply \in (IF anthropic_client THEN BatchReplies ELSE {ApiError}) :
             LET r == ExtractInvoiceStructure(text, PathStr(invoice_files[idx]),
                                              openai_client, anthropic_client,
                                              openai_reply, anthropic_reply)
             IN /\ attempt' = 0
                /\ invoice' = r.invoice
                /\ backend_calls' = r.calls
                /\ IF IsNone(r.invoice)
                   THEN EndIteration("no_invoice")
                   ELSE pc' = "flatten" /\ UNCHANGED <<idx, outcomes>>
    /\ UNCHANGED <<dirs, fs, env_vars, invoice_files, now, text, flat_records,
                   all_flat_records, processed_count, result, outputs>>
    /\ UNCHANGED <<extraction, texts, moves, stats>>
    /\ UNCHANGED <<financial_summary, summary_table, reports, movers>>

\* A faulty flatten step: the rows are appended inside the unit that is
\* retried, so a run that raises after the append is repeated and appends the
\* rows of the file again
FlattenExtendsBeforeRetry ==
    /\ pc = "flatten"
    /\ flat_records' = FlattenInvoiceData(Get(invoice), now)
    /\ all_flat_records' = all_flat_records \o flat_records'
    /\ \/ /\ attempt < StructureRetries
          /\ attempt' = attempt + 1
          /\ UNCHANGED <<pc, idx, outcomes>>
       \/ /\ attempt' = 0
          /\ pc' = "move"
          /\ UNCHANGED <<idx, outcomes>>
    /\ UNCHANGED <<dirs, fs, env_vars, invoice_files, now, text, invoice,
                   backend_calls, processed_count, result, outputs>>
    /\ UNCHANGED <<extraction, texts, moves, stats>>
    /\ UNCHANGED <<financial_summary, summary_table, reports, movers>>

\* flat_records = flatten_invoice_data(invoice) and
\* all_flat_records.extend(flat_records)
Flatten ==
    /\ pc = "flatten"
    /\ \E raised \in BOOLEAN :
          IF raised
          THEN UNCHANGED <<flat_records, all_flat_records>> /\ EndIteration("flatten_raised")
          ELSE /\ flat_records' = FlattenInvoiceData(Get(invoice), now)
               /\ all_flat_records' = all_flat_records \o flat_records'
               /\ pc' = "move"
               /\ UNCHANGED <<idx, outcomes>>
    /\ UNCHANGED <<dirs, fs, env_vars, invoice_files, now, text, invoice,
                   backend_calls, processed_count, result, outputs>>
    /\ UNCHANGED <<extraction, texts, moves, stats>>
    /\ UNCHANGED <<financial_summary, summary_table, reports, movers, attempt>>

\* A faulty archival step: the source is gone although source.rename raised
MoveLosesSourceOnFailure ==
    /\ pc = "move"
    /\ \E failure \in {"none", "mkdir", "rename"} :
          LET m == MoveProcessedFile(invoice_files[idx], ProcessedDir,
                                     Some(InputDir), dirs, fs)
          IN IF failure = "none"
             THEN /\ fs' = m.fs
                  /\ dirs' = m.dirs
                  /\ moves' = Append(moves, MoveRecord(invoice_files[idx],
                                                       Some(InputDir), m, dirs, fs))
                  /\ processed_count' = processed_count + 1
                  /\ EndIteration("processed")
             ELSE /\ fs' = (IF failure = "rename"
                            THEN [q \in DOMAIN fs \ {invoice_files[idx]} |-> fs[q]]
                            ELSE fs)
                  /\ dirs' = (IF failure = "rename" THEN m.dirs ELSE dirs)
                  /\ moves' = moves
                  /\ processed_count' = processed_count
                  /\ EndIteration("move_raised")
    /\ UNCHANGED <<env_vars, invoice_files, now, text, invoice, flat_records,
                   backend_calls, all_flat_records, result, outputs>>
    /\ UNCHANGED <<extraction, texts, stats>>
    /\ UNCHANGED <<financial_summary, summary_table, reports, movers, attempt>>

\* A faulty archival step: processed_count is incremented before the move
MoveCountsFirst ==
    /\ pc = "move"
    /\ processed_count' = processed_count + 1
    /\ \E failure \in {"none", "mkdir", "rename"} :
          LET m == MoveProcessedFile(invoice_files[idx], ProcessedDir,
                                     Some(InputDir), dirs, fs)
          IN IF failure = "none"
             THEN fs' = m.fs /\ dirs' = m.dirs /\ EndIteration("processed")
             ELSE /\ fs' = fs
                  /\ dirs' = (IF failure = "rename" THEN m.dirs ELSE dirs)
                  /\ EndIteration("move_raised")
    /\ UNCHANGED <<env_vars, invoice_files, now, text, invoice, flat_records,
                   backend_calls, all_flat_records, result, outputs>>
    /\ UNCHANGED <<extraction, texts, moves, stats>>
    /\ UNCHANGED <<financial_summary, summary_table, reports, movers, attempt>>

\* move_processed_file(file_path, processed_path, input_path) and
\* processed_count += 1.  The move succeeds, or an ensure_directory call
\* raises, or source.rename raises after the directories were made.
Move ==
    /\ pc = "move"
    /\ \E failure \in {"none", "mkdir", "rename"} :
          LET m == MoveProcessedFile(invoice_files[idx], ProcessedDir,
                                     Some(InputDir), dirs, fs)
          IN IF failure = "none"
             THEN /\ fs' = m.fs
                  /\ dirs' = m.dirs
                  /\ moves' = Append(moves, MoveRecord(invoice_files[idx],
                                                       Some(InputDir), m, dirs, fs))
                  /\ processed_count' = processed_count + 1
                  /\ EndIteration("processed")
             ELSE /\ fs' = fs
                  /\ dirs' = (IF failure = "rename" THEN m.dirs ELSE dirs)
                  /\ moves' = moves
                  /\ processed_count' = processed_count
                  /\ EndIteration("move_raised")
    /\ UNCHANGED <<env_vars, invoice_files, now, text, invoice, flat_records,
                   backend_calls, all_flat_records, result, outputs>>
    /\ UNCHANGED <<extraction, texts, stats>>
    /\ UNCHANGED <<financial_summary, summary_table, reports, movers, attempt>>

\* The output files in the order process_invoices writes them
OutputOrder == <<"csv", "report", "table">>

\* A faulty end of the flow: it tests processed_count, not the rows collected
SaveTestsCount ==
    /\ pc = "save"
    /\ IF processed_count > 0
       THEN \E written \in 0..Len(OutputOrder) :
               /\ outputs' = {OutputOrder[i] : i \in 1..written}
               /\ IF written = Len(OutputOrder)
                  THEN /\ result' = Some(SuccessMessage(processed_count,
                                                        Len(all_flat_records)))
                       /\ pc' = "done"
                  ELSE result' = result /\ pc' = "raised"
       ELSE /\ outputs' = outputs
            /\ result' = Some(NoneProcessedMessage(Len(invoice_files)))
            /\ pc' = "done"
    /\ UNCHANGED <<dirs, fs, env_vars, invoice_files, idx, now, text, invoice,
                   flat_records, backend_calls, all_flat_records,
                   processed_count, outcomes>>
    /\ UNCHANGED <<extraction, texts, moves, stats>>
    /\ UNCHANGED <<financial_summary, summary_table, reports, movers, attempt>>

(* The code after the loop.  With rows collected it writes the CSV, the      *)
(* report and the summary table and returns the success message; a write     *)
(* that raises ends the flow with that exception, the earlier files written. *)
(* save_summary_report analyses the rows once the CSV is written.            *)
(* With no rows it returns the "No invoices were successfully processed"     *)
(* message.                                                                  *)
Save ==
    /\ pc = "save"
    /\ IF all_flat_records # <<>>
       THEN \E written \in 0..Len(OutputOrder) :
               /\ outputs' = {OutputOrder[i] : i \in 1..written}
               /\ stats' = (IF written >= 1
                            THEN Some(AnalyzeProcessingResults(all_flat_records))
                            ELSE stats)
               /\ IF written = Len(OutputOrder)
                  THEN /\ result' = Some(SuccessMessage(processed_count,
                                                        Len(all_flat_records)))
                       /\ pc' = "done"
                  ELSE result' = result /\ pc' = "raised"
       ELSE /\ outputs' = outputs
            /\ stats' = stats
            /\ result' = Some(NoneProcessedMessage(Len(invoice_files)))
            /\ pc' = "done"
    /\ UNCHANGED <<dirs, fs, env_vars, invoice_files, idx, now, text, invoice,
                   flat_records, backend_calls, all_flat_records,
                   processed_count, outcomes>>
    /\ UNCHANGED <<extraction, texts, moves>>
    /\ UNCHANGED <<financial_summary, summary_table, reports, movers, attempt>>

Next == Discover \/ ExtractText \/ ExtractStructure \/ Flatten \/ Move \/ Save

Spec == Init /\ [][Next]_vars

----------------------------------------------------------------------------
(* The stages called on their own: extract_invoice_structure(text,           *)
(* str(file_path)) on any text and path, with any of the clients set and the *)
(* backends answering anything, then flatten_invoice_data on the invoice it  *)
(* returned.  invoice_files[1] is the path of the call.                      *)

StageInit ==
    /\ dirs = {InputDir}
    /\ fs = InitialFs({}, {})
    /\ glob_ignores_case = FALSE
    /\ openai_client \in BOOLEAN
    /\ anthropic_client \in BOOLEAN
    /\ pc = "call_structure"
    /\ invoice_files \in { <<p>> : p \in StagePaths }
    /\ idx = 1
    /\ now = 1
    /\ text \in {None} \cup {Some(x) : x \in StageTexts}
    /\ invoice = None
    /\ flat_records = <<>>
    /\ backend_calls = <<>>
    /\ all_flat_records = <<>>
    /\ processed_count = 0
    /\ result = None
    /\ outputs = {}
    /\ outcomes = <<>>
    /\ extraction = None
    /\ texts = <<>>
    /\ moves = <<>>
    /\ stats = None
    /\ financial_summary = None
    /\ summary_table = None
    /\ reports = <<>>
    /\ movers = <<>>
    /\ attempt = 0

\* invoice = extract_invoice_structure(text, str(file_path))
StageStructure ==
    /\ pc = "call_structure"
    /\ \E openai_reply \in (IF openai_client THEN StageReplies ELSE {ApiError}),
          anthropic_reply \in (IF anthropic_client THEN StageReplies ELSE {ApiError}) :
          LET r == ExtractInvoiceStructure(text, PathStr(invoice_files[idx]),
                                           openai_client, anthropic_client,
                                           openai_reply, anthropic_reply)
          IN /\ invoice' = r.invoice
             /\ backend_calls' = r.calls
             /\ pc' = IF IsNone(r.invoice) THEN "stage_done" ELSE "call_flatten"
    /\ UNCHANGED <<dirs, fs, env_vars, invoice_files, idx, now, text,
                   flat_records, all_flat_records, processed_count, result,
                   outputs, outcomes>>
    /\ UNCHANGED <<extraction, texts, moves, stats>>
    /\ UNCHANGED <<financial_summary, summary_table, reports, movers, attempt>>

\* flat_records = flatten_invoice_data(invoice)
StageFlatten ==
    /\ pc = "call_flatten"
    /\ flat_records' = FlattenInvoiceData(Get(invoice), now)
    /\ pc' = "stage_done"
    /\ UNCHANGED <<dirs, fs, env_vars, invoice_files, idx, now, text, invoice,
                   backend_calls, all_flat_records, processed_count, result,
                   outputs, outcomes>>
    /\ UNCHANGED <<extraction, texts, moves, stats>>
    /\ UNCHANGED <<financial_summary, summary_table, reports, movers, attempt>>

StageNext == StageStructure \/ StageFlatten

SpecStages == StageInit /\ [][StageNext]_vars

----------------------------------------------------------------------------
(* extract_text_from_file called on its own, for a PDF or an image file,     *)
(* the libraries doing anything.  invoice_files[1] is the path of the call.  *)

TextInit ==
    /\ dirs = {InputDir}
    /\ fs = InitialFs({}, {})
    /\ glob_ignores_case = FALSE
    /\ openai_client = FALSE
    /\ anthropic_client = FALSE
    /\ pc = "call_text"
    /\ invoice_files \in { <<p>> : p \in TextPaths }
    /\ idx = 1
    /\ now = 0
    /\ text = None
    /\ invoice = None
    /\ flat_records = <<>>
    /\ backend_calls = <<>>
    /\ all_flat_records = <<>>
    /\ processed_count = 0
    /\ result = None
    /\ outputs = {}
    /\ outcomes = <<>>
    /\ extraction \in { Some(x) : x \in TextExtractions }
    /\ texts = <<>>
    /\ moves = <<>>
    /\ stats = None
    /\ financial_summary = None
    /\ summary_table = None
    /\ reports = <<>>
    /\ movers = <<>>
    /\ attempt = 0

\* text = extract_text_from_file(file_path)
TextCall ==
    /\ pc = "call_text"
    /\ LET r == ExtractTextFromFile(invoice_files[idx], Get(extraction))
       IN /\ text' = r.text
          /\ texts' = Append(texts, TextRecord(invoice_files[idx], Get(extraction), r))
    /\ pc' = "text_done"
    /\ UNCHANGED <<dirs, fs, env_vars, invoice_files, idx, now, invoice,
                   flat_records, backend_calls, all_flat_records,
                   processed_count, result, outputs, outcomes, extraction,
                   moves, stats>>
    /\ UNCHANGED <<financial_summary, summary_table, reports, movers, attempt>>

TextNext == TextCall

SpecText == TextInit /\ [][TextNext]_vars

----------------------------------------------------------------------------
(* The reports of InvoiceSummaryGenerator made on their own, of any list of  *)
(* records.  all_flat_records is the records argument.                       *)

ReportInit ==
    /\ dirs = {InputDir}
    /\ fs = InitialFs({}, {})
    /\ glob_ignores_case = FALSE
    /\ openai_client = FALSE
    /\ anthropic_client = FALSE
    /\ pc = "call_analyze"
    /\ invoice_files = <<>>
    /\ idx = 0
    /\ now = 0
    /\ text = None
    /\ invoice = None
    /\ flat_records = <<>>
    /\ backend_calls = <<>>
    /\ all_flat_records \in ReportRecordLists
    /\ processed_count = 0
    /\ result = None
    /\ outputs = {}
    /\ outcomes = <<>>
    /\ extraction = None
    /\ texts = <<>>
    /\ moves = <<>>
    /\ stats = None
    /\ financial_summary = None
    /\ summary_table = None
    /\ reports = <<>>
    /\ movers = <<>>
    /\ attempt = 0

\* stats = analyze_processing_results(records)
Analyze ==
    /\ pc = "call_analyze"
    /\ stats' = Some(AnalyzeProcessingResults(all_flat_records))
    /\ pc' = "report_done"
    /\ UNCHANGED <<dirs, fs, env_vars, invoice_files, idx, now, text, invoice,
                   flat_records, backend_calls, all_flat_records,
                   processed_count, result, outputs, outcomes, extraction,
                   texts, moves>>
    /\ UNCHANGED <<financial_summary, summary_table, reports, movers, attempt>>

ReportNext == Analyze

SpecReport == ReportInit /\ [][ReportNext]_vars

----------------------------------------------------------------------------
(* The financial summary, the summary table and the report of               *)
(* InvoiceSummaryGenerator made on their own, of lists of records with      *)
(* amounts or with products.  all_flat_records is the records argument.     *)

SummaryInit ==
    /\ dirs = {InputDir}
    /\ fs = InitialFs({}, {})
    /\ glob_ignores_case = FALSE
    /\ openai_client = FALSE
    /\ anthropic_client = FALSE
    /\ pc = "call_financial"
    /\ invoice_files = <<>>
    /\ idx = 0
    /\ now = 0
    /\ text = None
    /\ invoice = None
    /\ flat_records = <<>>
    /\ backend_calls = <<>>
    /\ all_flat_records \in SummaryRecordLists
    /\ processed_count = 0
    /\ result = None
    /\ outputs = {}
    /\ outcomes = <<>>
    /\ extraction = None
    /\ texts = <<>>
    /\ moves = <<>>
    /\ stats = None
    /\ financial_summary = None
    /\ summary_table = None
    /\ reports = <<>>
    /\ movers = <<>>
    /\ attempt = 0

\* financial_summary = generate_financial_summary(records)
Financial ==
    /\ pc = "call_financial"
    /\ \E hash_seed \in HashSeeds :
          financial_summary' =
              Some(GenerateFinancialSummary(all_flat_records, hash_seed))
    /\ pc' = "call_table"
    /\ UNCHANGED <<dirs, fs, env_vars, invoice_files, idx, now, text, invoice,
                   flat_records, backend_calls, all_flat_records,
                   processed_count, result, outputs, outcomes, extraction,
                   texts, moves, stats, summary_table, reports, movers, attempt>>

\* summary_table = generate_invoice_summary_table(records)
Table ==
    /\ pc = "call_table"
    /\ summary_table' = Some(GenerateInvoiceSummaryTable(all_flat_records))
    /\ pc' = "call_report"
    /\ UNCHANGED <<dirs, fs, env_vars, invoice_files, idx, now, text, invoice,
                   flat_records, backend_calls, all_flat_records,
                   processed_count, result, outputs, outcomes, extraction,
                   texts, moves, stats, financial_summary, reports, movers, attempt>>

SummaryNext == Financial \/ Table

SpecSummary == SummaryInit /\ [][SummaryNext]_vars

----------------------------------------------------------------------------
(* The report of InvoiceSummaryGenerator saved twice of the same records.   *)

RenderInit ==
    /\ dirs = {InputDir}
    /\ fs = InitialFs({}, {})
    /\ glob_ignores_case = FALSE
    /\ openai_client = FALSE
    /\ anthropic_client = FALSE
    /\ pc = "call_report"
    /\ invoice_files = <<>>
    /\ idx = 0
    /\ now \in 0..1
    /\ text = None
    /\ invoice = None
    /\ flat_records = <<>>
    /\ backend_calls = <<>>
    /\ all_flat_records \in RenderRecordLists
    /\ processed_count = 0
    /\ result = None
    /\ outputs = {}
    /\ outcomes = <<>>
    /\ extraction = None
    /\ texts = <<>>
    /\ moves = <<>>
    /\ stats = None
    /\ financial_summary = None
    /\ summary_table = None
    /\ reports = <<>>
    /\ movers = <<>>
    /\ attempt = 0

\* "out.csv", the csv_file_path of the calls
CsvLabel == <<"o", "u", "t", ".", "c", "s", "v">>

(* save_summary_report(records, csv_file_path), called twice of the same     *)
(* records while the clock stands still, each time by an interpreter that    *)
(* drew a hash seed of its own: processing_stats is analysed, the report is  *)
(* generated of it, which makes the table and the financial summary anew,    *)
(* and is written unless generating it raised.                               *)
SaveSummaryReport ==
    /\ pc = "call_report"
    /\ \E hash_seed \in HashSeeds :
          LET processing_stats == AnalyzeProcessingResults(all_flat_records)
              report_content ==
                  GenerateDetailedSummaryReport(all_flat_records, processing_stats,
                                                CsvLabel, IntStr(now), hash_seed)
          IN /\ stats' = Some(processing_stats)
             /\ summary_table' = Some(GenerateInvoiceSummaryTable(all_flat_records))
             /\ financial_summary' =
                   Some(GenerateFinancialSummary(all_flat_records, hash_seed))
             /\ reports' = Append(reports, [timestamp |-> now,
                                            raised |-> report_content.raised,
                                            text |-> report_content.value])
             /\ outputs' = (IF report_content.raised THEN outputs
                            ELSE outputs \cup {"report"})
    /\ pc' = (IF reports = <<>> THEN "call_report" ELSE "summary_done")
    /\ UNCHANGED <<dirs, fs, env_vars, invoice_files, idx, now, text, invoice,
                   flat_records, backend_calls, all_flat_records,
                   processed_count, result, outcomes, extraction, texts, moves,
                   movers, attempt>>

RenderNext == SaveSummaryReport

SpecRender == RenderInit /\ [][RenderNext]_vars

----------------------------------------------------------------------------
(* move_processed_file called on its own: any of the files, in any order,   *)
(* with any base directory, into the one processed directory, no            *)
(* operating-system call failing.                                           *)

MoveInit ==
    /\ \E a \in MoveArchiveUniverse :
          /\ fs = InitialFs(MoveSources, a)
          /\ dirs = DirsOf(MoveSources) \cup DirsOf(a)
    /\ glob_ignores_case = FALSE
    /\ openai_client = FALSE
    /\ anthropic_client = FALSE
    /\ pc = "call_move"
    /\ LocalsInit

\* destination = move_processed_file(source, processed_dir, input_base_dir)
MoveCall ==
    /\ pc = "call_move"
    /\ \E source \in {p \in DOMAIN fs : ~InParents(ProcessedDir, p)},
          input_base_dir \in MoveBaseDirs :
          LET m == MoveProcessedFile(source, ProcessedDir, input_base_dir, dirs, fs)
          IN /\ fs' = m.fs
             /\ dirs' = m.dirs
             /\ moves' = Append(moves, MoveRecord(source, input_base_dir, m, dirs, fs))
    /\ UNCHANGED <<env_vars, pc, invoice_files, idx, now, text, invoice,
                   flat_records, backend_calls, all_flat_records,
                   processed_count, result, outputs, outcomes, extraction,
                   texts, stats>>
    /\ UNCHANGED <<financial_summary, summary_table, reports, movers, attempt>>

MoveNext == MoveCall

SpecMove == MoveInit /\ [][MoveNext]_vars

----------------------------------------------------------------------------
(* Two calls of move_processed_file that run side by side, as in two batch   *)
(* runs that share the processed directory.  Each call takes its steps in    *)
(* the order of the code; between the steps of one call the other may take   *)
(* any number of its own.  A test destination.exists() and the call          *)
(* source.rename(destination) are single operating-system calls.             *)

\* The calls: a source and the input_base_dir argument
RaceCalls ==
    { [source |-> source, input_base_dir |-> input_base_dir] :
        source \in MoveSources, input_base_dir \in MoveBaseDirs }

\* The pairs of calls on two sources that have the same destination before
\* the conflict loop
RacePairs ==
    { <<c, d>> \in RaceCalls \X RaceCalls :
        /\ c.source # d.source
        /\ PlainDestination(c.source, ProcessedDir, c.input_base_dir)
              = PlainDestination(d.source, ProcessedDir, d.input_base_dir) }

\* A call that has not taken a step yet
MoverOf(call) ==
    [pc |-> "ensure", source |-> call.source, input_base_dir |-> call.input_base_dir,
     destination |-> None, original_destination |-> None, counter |-> 0]

RaceInit ==
    /\ \E a \in MoveArchiveUniverse :
          /\ fs = InitialFs(MoveSources, a)
          /\ dirs = DirsOf(MoveSources) \cup DirsOf(a)
    /\ glob_ignores_case = FALSE
    /\ openai_client = FALSE
    /\ anthropic_client = FALSE
    /\ pc = "call_moves"
    /\ LocalsInit

\* What the steps of the two calls leave alone
RaceFrame ==
    /\ UNCHANGED <<env_vars, invoice_files, idx, now, text, invoice,
                   flat_records, backend_calls, all_flat_records,
                   processed_count, result, outputs, outcomes, extraction,
                   texts, moves, stats>>
    /\ UNCHANGED <<financial_summary, summary_table, reports, attempt>>

\* The two calls are made
StartMoves ==
    /\ pc = "call_moves"
    /\ \E pair \in RacePairs : movers' = <<MoverOf(pair[1]), MoverOf(pair[2])>>
    /\ pc' = "moving"
    /\ UNCHANGED <<dirs, fs>>
    /\ RaceFrame

\* The ensure_directory calls, destination, counter = 1 and
\* original_destination = destination
MoverEnsure(m) ==
    /\ pc = "moving"
    /\ movers[m].pc = "ensure"
    /\ LET destination == PlainDestination(movers[m].source, ProcessedDir,
                                            movers[m].input_base_dir)
       IN /\ dirs' = MoveDirs(movers[m].source, ProcessedDir,
                               movers[m].input_base_dir, dirs)
          /\ movers' = [movers EXCEPT ![m].pc = "conflicts",
                                       ![m].destination = Some(destination),
                                       ![m].original_destination = Some(destination),
                                       ![m].counter = 1]
    /\ UNCHANGED <<pc, fs>>
    /\ RaceFrame

\* One test of `while destination.exists():` and, when it holds, the body
MoverConflict(m) ==
    /\ pc = "moving"
    /\ movers[m].pc = "conflicts"
    /\ IF Exists(Get(movers[m].destination), dirs, fs)
       THEN movers' = [movers EXCEPT
                         ![m].destination =
                             Some(Renamed(Get(movers[m].original_destination),
                                          movers[m].counter)),
                         ![m].counter = movers[m].counter + 1]
       ELSE movers' = [movers EXCEPT ![m].pc = "rename"]
    /\ UNCHANGED <<pc, dirs, fs>>
    /\ RaceFrame

\* source.rename(destination) and return destination.  When a file is at the
\* destination by now, os.rename replaces it (POSIX) or raises
\* FileExistsError (Windows).
MoverRename(m) ==
    /\ pc = "moving"
    /\ movers[m].pc = "rename"
    /\ \E replaces \in BOOLEAN :
          IF Get(movers[m].destination) \in DOMAIN fs /\ ~replaces
          THEN /\ movers' = [movers EXCEPT ![m].pc = "raised"]
               /\ fs' = fs
          ELSE /\ movers' = [movers EXCEPT ![m].pc = "returned"]
               /\ fs' = Rename(movers[m].source, Get(movers[m].destination), fs)
    /\ UNCHANGED <<pc, dirs>>
    /\ RaceFrame

RaceNext ==
    \/ StartMoves
    \/ \E m \in DOMAIN movers : MoverEnsure(m)
    \/ \E m \in DOMAIN movers : MoverConflict(m)
    \/ \E m \in DOMAIN movers : MoverRename(m)

SpecRace == RaceInit /\ [][RaceNext]_vars

----------------------------------------------------------------------------
(* Properties of the batch run, checked under Spec *)

\* The indices of the files whose loop body ended with the given kind
OutcomesOfKind(kinds) == {i \in 1..Len(outcomes) : outcomes[i].kind \in kinds}

\* The loop is over: control is after the for statement
LoopOver == pc \in {"save", "raised"} \/ (pc = "done" /\ invoice_files # <<>>)

(* C1: whatever happens to a file (no text, no invoice, or an exception in  *)
(* text extraction, structure extraction, flattening or archival), the loop *)
(* goes on with the next discovered file: while the loop runs, every file   *)
(* before the current one has been attempted, in discovery order; once it   *)
(* is over every discovered file has been attempted; the run is never      *)
(* stuck inside the loop (the stage it is at has what it needs to run), it  *)
(* ends by returning a message, and it ends with an exception only after    *)
(* the loop, when writing the outputs of a non-empty row collection raises. *)
C1_EveryFileAttempted ==
    /\ pc \in {"start", "text", "structure", "flatten", "move", "save", "done", "raised"}
    /\ pc \in {"text", "structure", "flatten", "move"}
          => idx \in 1..Len(invoice_files) /\ Len(outcomes) = idx - 1
    /\ pc \in {"flatten", "move"} => ~IsNone(invoice)
    /\ LoopOver => Len(outcomes) = Len(invoice_files)
    /\ \A i \in 1..Len(outcomes) : outcomes[i].file = invoice_files[i]
    /\ pc = "done" => result # None
    /\ pc = "raised" => all_flat_records # <<>>

\* A run of two files returned a message after the first file raised and the
\* second was processed
C1_Witness ==
    /\ pc = "done"
    /\ result # None
    /\ Len(outcomes) = 2
    /\ outcomes[1].kind \in RaisedKinds
    /\ outcomes[2].kind = "processed"

(* C2: at every point of the run processed_count is the number of files     *)
(* whose archival completed: the number of loop bodies that ended after a   *)
(* successful move, which is the number of discovered files that have left  *)
(* their path.                                                              *)
C2_ProcessedCountIsArchivedCount ==
    /\ processed_count = Cardinality(OutcomesOfKind({"processed"}))
    /\ processed_count =
          Cardinality({i \in 1..Len(invoice_files) : invoice_files[i] \notin DOMAIN fs})

\* A run in which one file was archived and the archival of another raised
C2_Witness ==
    /\ pc = "done"
    /\ processed_count = 1
    /\ OutcomesOfKind({"move_raised"}) # {}
    /\ OutcomesOfKind({"no_text"}) \cup OutcomesOfKind({"no_invoice"}) = {}

(* C3: after the loop every row of the collection belongs to a file that    *)
(* was archived and counted as processed.                                   *)
C3_RowsOnlyOfArchivedFiles ==
    LoopOver =>
        \A i \in 1..Len(all_flat_records) :
            \E j \in OutcomesOfKind({"processed"}) :
                all_flat_records[i].file_path = PathStr(outcomes[j].file)

(* C4: the message returned is the "no files" message exactly when          *)
(* discovery found no file, the "none processed" message exactly when files *)
(* were found and no row was collected, and otherwise the success message   *)
(* carrying processed_count and the number of rows collected.               *)
C4_MessageKinds ==
    pc = "done" =>
        /\ result # None
        /\ Get(result).kind \in {"no_files", "none_processed", "success"}
        /\ Get(result).kind = "no_files" <=> invoice_files = <<>>
        /\ Get(result).kind = "none_processed"
              <=> (invoice_files # <<>> /\ all_flat_records = <<>>)
        /\ Get(result).kind = "success"
              => /\ Get(result).files = processed_count
                 /\ Get(result).rows = Len(all_flat_records)

\* A run returned the success message for two files and three rows
C4_Witness ==
    /\ pc = "done"
    /\ result = Some(SuccessMessage(2, 3))

\* A backend reply is usable when the backend call returns data that
\* extract_invoice_data turns into an invoice
UsableReply(reply) ==
    /\ ~Falsy(BackendCall(reply))
    /\ ~IsNone(ParseExtracted(Get(BackendCall(reply)), <<>>, <<>>))

\* No backend call of the last extract_invoice_data gave a usable reply
NoUsableReply ==
    \A i \in 1..Len(backend_calls) : ~UsableReply(backend_calls[i].reply)

\* The text has at least MinTextLen characters once trimmed
SufficientText == ~IsNone(text) /\ Len(Strip(Get(text))) >= MinTextLen

(* C5: a run over an input directory with one supported file, whose text is *)
(* sufficient and for which no backend gives a usable reply, and in which   *)
(* neither a stage call nor the file system raises, returns the success     *)
(* message for 1 file and 1 row, the row is the placeholder row, and the    *)
(* file is no longer at its path.                                           *)
C5_OcrOnlyEndToEnd ==
    ( /\ pc = "done"
      /\ Len(invoice_files) = 1
      /\ SufficientText
      /\ NoUsableReply
      /\ OutcomesOfKind(RaisedKinds) = {} )
    => /\ result = Some(SuccessMessage(1, 1))
       /\ Len(all_flat_records) = 1
       /\ all_flat_records[1].vendor_name = Some(OcrOnlyVendor)
       /\ StartsWith(all_flat_records[1].item_description, OcrTextMarker)
       /\ invoice_files[1] \notin DOMAIN fs

\* Such a run, with both backends called and failing
C5_Witness ==
    /\ pc = "done"
    /\ Len(invoice_files) = 1
    /\ SufficientText
    /\ Len(backend_calls) = 2
    /\ NoUsableReply
    /\ result = Some(SuccessMessage(1, 1))
    /\ invoice_files[1] \notin DOMAIN fs

----------------------------------------------------------------------------
(* Properties of the stages, checked under SpecStages *)

\* extract_invoice_structure has returned
StructureReturned == pc \in {"call_flatten", "stage_done"}

\* The backend was called by the last extract_invoice_data
Called(backend) ==
    \E i \in 1..Len(backend_calls) : backend_calls[i].backend = backend

(* C6: extract_invoice_structure returns None exactly when the text is      *)
(* None, empty, or shorter than 20 characters once trimmed, and then no     *)
(* backend was called; for every other text it returns an invoice.          *)
C6_NoneIffInsufficientText ==
    StructureReturned =>
        /\ IsNone(invoice) <=> (IsNone(text) \/ Len(Strip(Get(text))) < MinTextLen)
        /\ IsNone(invoice) => backend_calls = <<>>

\* None was returned for a text of 20 characters or more that is shorter
\* once trimmed, with both clients set
C6_Witness ==
    /\ StructureReturned
    /\ IsNone(invoice)
    /\ ~IsNone(text)
    /\ Len(Get(text)) >= MinTextLen
    /\ openai_client /\ anthropic_client

(* C7: when extract_invoice_data runs (the text is sufficient), OpenAI is   *)
(* called first whenever its client is set; Anthropic is called only if its *)
(* client is set and OpenAI's is not set or gave no usable reply; after a   *)
(* usable reply of OpenAI Anthropic is not called; no backend is called     *)
(* twice or without its client; and with neither client set no backend is   *)
(* called and the result is the placeholder.                                *)
C7_BackendOrder ==
    (StructureReturned /\ ~IsNone(invoice)) =>
        /\ openai_client => (backend_calls # <<>> /\ backend_calls[1].backend = "openai")
        /\ \A i \in 2..Len(backend_calls) : backend_calls[i].backend # "openai"
        /\ Len(backend_calls) <= 2
        /\ Called("openai") => openai_client
        /\ Called("anthropic")
              => /\ anthropic_client
                 /\ backend_calls[Len(backend_calls)].backend = "anthropic"
                 /\ ~openai_client \/ ~UsableReply(backend_calls[1].reply)
        /\ (openai_client /\ UsableReply(backend_calls[1].reply)) => ~Called("anthropic")
        /\ (~openai_client /\ ~anthropic_client)
              => /\ backend_calls = <<>>
                 /\ Get(invoice).header.vendor_name = Some(OcrOnlyVendor)

\* Anthropic was called after OpenAI gave no usable reply, and gave one
C7_Witness ==
    /\ StructureReturned
    /\ Len(backend_calls) = 2
    /\ backend_calls[1].backend = "openai"
    /\ ~UsableReply(backend_calls[1].reply)
    /\ backend_calls[2].backend = "anthropic"
    /\ UsableReply(backend_calls[2].reply)
    /\ Get(invoice).header.vendor_name = Some(Acme)

(* C8: when OpenAI's reply is not usable (the call raised, the content is   *)
(* not JSON, or the data fails validation) and the Anthropic client is set, *)
(* Anthropic is called next.                                                *)
C8_FallbackAfterAnyFailure ==
    ( /\ StructureReturned
      /\ ~IsNone(invoice)
      /\ openai_client
      /\ anthropic_client
      /\ ~UsableReply(backend_calls[1].reply) )
    => Called("anthropic")

\* The name of the file the stage was called for
StageFileName == invoice_files[1][Len(invoice_files[1])]

\* s is name without its extension: name is s, a ".", and an extension
\* without "."
IsStemOf(s, name) ==
    /\ Len(s) < Len(name)
    /\ s = SubSeq(name, 1, Len(s))
    /\ name[Len(s) + 1] = "."
    /\ \A i \in (Len(s) + 2)..Len(name) : name[i] # "."

(* C9: for a sufficient text and no usable reply of a backend,              *)
(* extract_invoice_structure returns the placeholder: vendor "Unknown (OCR  *)
(* only)", the invoice number the stem of the file name, no total amount,   *)
(* and one line item whose description is the marker "OCR Text (AI          *)
(* extraction failed): ", the first min(500, len) characters of the text    *)
(* and "...".                                                               *)
C9_Placeholder ==
    (StructureReturned /\ SufficientText /\ NoUsableReply) =>
        /\ ~IsNone(invoice)
        /\ LET inv == Get(invoice)
               description == inv.line_items[1].item_description
               embedded == SubSeq(description, Len(OcrTextMarker) + 1,
                                  Len(description) - Len(Ellipsis))
           IN /\ inv.header.vendor_name = Some(OcrOnlyVendor)
              /\ ~IsNone(inv.header.invoice_number)
              /\ IsStemOf(Get(inv.header.invoice_number), StageFileName)
              /\ inv.header.total_amount = None
              /\ Len(inv.line_items) = 1
              /\ StartsWith(description, OcrTextMarker)
              /\ Len(embedded) <= PreviewLen
              /\ Len(embedded) = Min(PreviewLen, Len(Get(text)))
              /\ \A i \in 1..Len(embedded) : embedded[i] = Get(text)[i]
              /\ description = OcrTextMarker \o embedded \o Ellipsis

\* The placeholder was returned for a text of more than 500 characters after
\* both backends failed
C9_Witness ==
    /\ StructureReturned
    /\ SufficientText
    /\ Len(Get(text)) > PreviewLen
    /\ Len(backend_calls) = 2
    /\ NoUsableReply
    /\ Get(invoice).header.vendor_name = Some(OcrOnlyVendor)

(* C10: flatten_invoice_data returns max(1, k) records for an invoice of k  *)
(* line items; for k = 0 the one record has the description "No line items  *)
(* found", no quantity, unit price, line total or item code, the header     *)
(* fields of the invoice and its file path.                                 *)
C10_FlattenCount ==
    (pc = "stage_done" /\ ~IsNone(invoice)) =>
        LET inv == Get(invoice)
            k == Len(inv.line_items)
        IN /\ Len(flat_records) = Max(1, k)
           /\ k = 0 =>
                 /\ flat_records[1].item_description = NoLineItems
                 /\ \A f \in {"quantity", "unit_price", "line_total", "item_code"} :
                       flat_records[1][f] = None
                 /\ \A f \in HeaderFields : flat_records[1][f] = inv.header[f]
                 /\ flat_records[1].file_path = inv.file_path
                 /\ flat_records[1].file_path = PathStr(invoice_files[1])

\* An invoice without line items was flattened into one record
C10_Witness ==
    /\ pc = "stage_done"
    /\ ~IsNone(invoice)
    /\ Get(invoice).line_items = <<>>
    /\ Get(invoice).header.vendor_name = Some(Acme)
    /\ Len(flat_records) = 1

(* C11: for an invoice of k >= 1 line items flatten_invoice_data returns k  *)
(* records; record i carries the fields of line item i, and every record    *)
(* carries the header fields of the invoice, its file path and the one      *)
(* timestamp read at the start of the call.                                 *)
C11_RowsFollowLineItems ==
    (pc = "stage_done" /\ ~IsNone(invoice) /\ Get(invoice).line_items # <<>>) =>
        LET inv == Get(invoice)
        IN /\ Len(flat_records) = Len(inv.line_items)
           /\ \A i \in 1..Len(flat_records) :
                 /\ \A f \in ItemFields : flat_records[i][f] = inv.line_items[i][f]
                 /\ \A f \in HeaderFields :
                       /\ flat_records[i][f] = inv.header[f]
                       /\ flat_records[i][f] = flat_records[1][f]
                 /\ flat_records[i].file_path = inv.file_path
                 /\ flat_records[i].file_path = PathStr(invoice_files[1])
                 /\ flat_records[i].processing_timestamp = Some(now)
                 /\ flat_records[i].processing_timestamp
                       = flat_records[1].processing_timestamp

\* An invoice of two different line items was flattened into two records
C11_Witness ==
    /\ pc = "stage_done"
    /\ ~IsNone(invoice)
    /\ Len(Get(invoice).line_items) = 2
    /\ Get(invoice).line_items[1] # Get(invoice).line_items[2]
    /\ Len(flat_records) = 2
    /\ flat_records[1].item_description = Widget
    /\ flat_records[2].item_description = Gadget

----------------------------------------------------------------------------
(* Properties of the discovery, checked under Spec *)

\* The files under the input directory whose extension, in lower case, is a
\* supported one
SupportedFiles ==
    {p \in DOMAIN fs : /\ InParents(InputDir, p)
                       /\ Lower(NameSuffix(p[Len(p)])) \in SupportedExtensions}

\* get_invoice_files has just returned: no file was moved yet
JustDiscovered ==
    \/ pc = "text" /\ idx = 1 /\ outcomes = <<>>
    \/ pc = "done" /\ invoice_files = <<>>

(* C15: get_invoice_files returns exactly the files under the directory     *)
(* whose extension is a supported one whatever its case, each once, in      *)
(* ascending order of the path string.                                      *)
C15_DiscoveryIgnoresCase ==
    JustDiscovered =>
        /\ {invoice_files[i] : i \in 1..Len(invoice_files)} = SupportedFiles
        /\ \A i, j \in 1..Len(invoice_files) :
              i < j => StrLess(PathStr(invoice_files[i]), PathStr(invoice_files[j]))

(* C16: with the input directory missing, or holding no supported file,     *)
(* process_invoices finds no file and returns the "No invoice files found"  *)
(* message; it writes no output file, moves no file and makes no directory. *)
C16_NoFilesNoArtifacts ==
    [][ (pc = "start" /\ (InputDir \notin dirs \/ SupportedFiles = {})) =>
            /\ pc' = "done"
            /\ invoice_files' = <<>>
            /\ result' = Some(NoFilesMessage)
            /\ outputs' = {}
            /\ moves' = <<>>
            /\ all_flat_records' = <<>>
            /\ fs' = fs
            /\ dirs' = dirs ]_vars

\* A run over an input directory that holds only n.txt, next to an archive of
\* an earlier run, returned the message
C16_Witness ==
    /\ pc = "done"
    /\ result = Some(NoFilesMessage)
    /\ InputDir \in dirs
    /\ DOMAIN fs = {InputDir \o <<NameN>>, ProcessedDir \o <<NameA>>}
    /\ outputs = {}

----------------------------------------------------------------------------
(* Properties of extract_text_from_file, checked under SpecText and Spec *)

\* The path is that of a PDF
IsPdf(file_path) ==
    Lower(NameSuffix(file_path[Len(file_path)])) = <<".", "p", "d", "f">>

\* The blocks "Page N:\n<text>\n\n" of the images from the n-th on that the
\* OCR finds a text in, N being the number of the page
RECURSIVE PageBlocksFrom(_, _)
PageBlocksFrom(images, n) ==
    IF n > Len(images) THEN <<>>
    ELSE LET found == ExtractTextFromImage(images[n])
         IN (IF found = None THEN <<>>
             ELSE <<"P", "a", "g", "e", " ">> \o IntStr(n) \o <<":", "\n">>
                  \o Get(found) \o <<"\n", "\n">>)
            \o PageBlocksFrom(images, n + 1)

(* C17: for a PDF the direct extraction is the first library call; the      *)
(* pages are rendered and read by OCR exactly when the direct text is None  *)
(* or shorter than 50 characters once stripped; if the OCR found a text on  *)
(* some page the result is the blocks "Page N:\n<text>\n\n" of those pages  *)
(* in page order, otherwise it is the direct text, None or short as it is.  *)
C17_DirectThenOcr ==
    (pc = "text_done" /\ IsPdf(invoice_files[1])) =>
        LET c == texts[1]
            direct == PdfExtractText(c.x.reader)
            images == ConvertToImages(c.x.render)
            yielding == {i \in 1..Len(images) : ExtractTextFromImage(images[i]) # None}
            ocr_ran == \E k \in 1..Len(c.steps) : c.steps[k] \in {"render", "ocr"}
        IN /\ c.steps[1] = "direct"
           /\ \A k \in 2..Len(c.steps) : c.steps[k] # "direct"
           /\ ocr_ran <=> (direct = None \/ Len(Strip(Get(direct))) < DirectMinLen)
           /\ ocr_ran =>
                 /\ c.steps[2] = "render"
                 /\ Cardinality({k \in 1..Len(c.steps) : c.steps[k] = "ocr"}) = Len(images)
           /\ (ocr_ran /\ yielding # {}) => text = Some(PageBlocksFrom(images, 1))
           /\ (~ocr_ran \/ yielding = {}) => text = direct
           /\ text = c.text

\* A PDF with a direct text of 49 characters was rendered to two pages; the
\* OCR of the first raised and that of the second found "ok"
C17_Witness ==
    /\ pc = "text_done"
    /\ IsPdf(invoice_files[1])
    /\ Get(extraction).reader = Returns(<<TextOfLen(DirectMinLen - 1)>>)
    /\ Get(extraction).render = Returns(<<Raises, Returns(Padded(Ok))>>)
    /\ text = Some(<<"P", "a", "g", "e", " ", "2", ":", "\n", "o", "k", "\n", "\n">>)

\* A library call that extract_text_from_file made in the call c raised
ErrorRaised(c) ==
    IF IsPdf(c.file)
    THEN \/ c.x.reader.raised
         \/ /\ Len(c.steps) > 1
            /\ \/ c.x.render.raised
               \/ \E i \in 1..Len(ConvertToImages(c.x.render)) :
                     ConvertToImages(c.x.render)[i].raised
    ELSE c.x.open.raised \/ c.x.open.value.raised

\* The library behaviour x with every error replaced by an empty result: no
\* page, no image, no text
SilencedImage(image) == IF image.raised THEN Returns(<<>>) ELSE image
Silenced(x) ==
    [reader |-> IF x.reader.raised THEN Returns(<<>>) ELSE x.reader,
     render |-> IF x.render.raised THEN Returns(<<>>)
                ELSE Returns([i \in 1..Len(x.render.value) |->
                                 SilencedImage(x.render.value[i])]),
     open |-> IF x.open.raised THEN Returns(Returns(<<>>))
              ELSE Returns(SilencedImage(x.open.value))]

\* The file of the i-th pass of the loop was left alone: it is at its path,
\* it was not moved and no row is of it
Skipped(i) ==
    /\ invoice_files[i] \in DOMAIN fs
    /\ \A k \in 1..Len(moves) : moves[k].source # invoice_files[i]
    /\ \A k \in 1..Len(all_flat_records) :
          all_flat_records[k].file_path # PathStr(invoice_files[i])

----------------------------------------------------------------------------
(* Properties of move_processed_file, checked under SpecMove *)

\* The directory of a path
ParentOf(path) == SubSeq(path, 1, Len(path) - 1)

\* The path existed, as a file or a directory, before the call c
Taken(c, path) == path \in DOMAIN c.fs_before \/ path \in c.dirs_before

\* new is name with "_k" put before its extension
IsSuffixed(new, name, k) ==
    \E n \in 1..(Len(name) - 1) :
        /\ IsStemOf(SubSeq(name, 1, n), name)
        /\ new = SubSeq(name, 1, n) \o <<"_">> \o IntStr(k)
                  \o SubSeq(name, n + 1, Len(name))

(* C12: in any sequence of calls into the processed directory, each call    *)
(* returns a path that did not exist before it and leaves every other file  *)
(* as it was; with the plain destination taken the returned name is         *)
(* name_k.ext for the least k >= 1 whose path is free, k being at most the  *)
(* number of paths that exist (the search ends).                            *)
C12_FreshSuffixedDestination ==
    \A i \in 1..Len(moves) :
        LET c == moves[i]
            name == c.source[Len(c.source)]
            parent == ParentOf(c.destination)
            new == c.destination[Len(c.destination)]
        IN /\ ~Taken(c, c.destination)
           /\ \A p \in DOMAIN c.fs_before \ {c.source} :
                 p \in DOMAIN c.fs_after /\ c.fs_after[p] = c.fs_before[p]
           /\ IF Taken(c, parent \o <<name>>)
              THEN \E k \in 1..Cardinality(DOMAIN c.fs_before \cup c.dirs_before) :
                      /\ IsSuffixed(new, name, k)
                      /\ \A j \in 1..(k - 1) :
                            \E taken \in DOMAIN c.fs_before \cup c.dirs_before :
                               /\ ParentOf(taken) = parent
                               /\ IsSuffixed(taken[Len(taken)], name, j)
              ELSE new = name

\* Three files named a.pdf were moved into the processed directory, where
\* they are a.pdf, a_1.pdf and a_2.pdf
C12_Witness ==
    /\ Len(moves) = 3
    /\ moves[1].destination = ProcessedDir \o <<NameA>>
    /\ moves[2].destination = ProcessedDir \o <<NameA1>>
    /\ moves[3].destination = ProcessedDir \o << <<"a", "_", "2", ".", "p", "d", "f">> >>
    /\ moves[3].source[Len(moves[3].source)] = NameA

(* C13: after a call that returned, the source is gone from its path, the   *)
(* destination holds the content the source had, every other file is where  *)
(* and what it was, and the number of files is the same.                    *)
C13_MoveIsRename ==
    \A i \in 1..Len(moves) :
        LET c == moves[i]
        IN /\ c.source \notin DOMAIN c.fs_after
           /\ c.source \notin c.dirs_after
           /\ c.destination \in DOMAIN c.fs_after
           /\ c.fs_after[c.destination] = c.fs_before[c.source]
           /\ \A p \in DOMAIN c.fs_before \ {c.source} :
                 p \in DOMAIN c.fs_after /\ c.fs_after[p] = c.fs_before[p]
           /\ \A p \in DOMAIN c.fs_after \ {c.destination} : p \in DOMAIN c.fs_before
           /\ Cardinality(DOMAIN c.fs_after) = Cardinality(DOMAIN c.fs_before)
           /\ IF i < Len(moves) THEN moves[i + 1].fs_before = c.fs_after
              ELSE fs = c.fs_after

\* in/a.pdf was moved into a processed directory that held an a.pdf: the old
\* file is untouched and the new one is a_1.pdf
C13_Witness ==
    /\ Len(moves) = 1
    /\ moves[1].source = InputDir \o <<NameA>>
    /\ moves[1].destination = ProcessedDir \o <<NameA1>>
    /\ InputDir \o <<NameA>> \notin DOMAIN fs
    /\ fs[ProcessedDir \o <<NameA>>] = OldContent
    /\ fs[ProcessedDir \o <<NameA1>>] = PathStr(InputDir \o <<NameA>>)

(* C14: a source under the base directory goes to the processed directory   *)
(* joined with its path relative to the base, the directories on the way    *)
(* being made; without a base, or with the source not under it, it goes to  *)
(* the processed directory joined with its name.  When that path is taken   *)
(* the file goes next to it.                                                *)
C14_Placement ==
    \A i \in 1..Len(moves) :
        LET c == moves[i]
            src == c.source
            n == IF IsNone(c.input_base_dir) THEN 0 ELSE Len(Get(c.input_base_dir))
            under == /\ ~IsNone(c.input_base_dir)
                     /\ n < Len(src)
                     /\ \A j \in 1..n : src[j] = Get(c.input_base_dir)[j]
            expected == IF under
                        THEN ProcessedDir \o [j \in 1..(Len(src) - n) |-> src[n + j]]
                        ELSE ProcessedDir \o <<src[Len(src)]>>
        IN /\ ParentOf(c.destination) = ParentOf(expected)
           /\ ~Taken(c, expected) => c.destination = expected
           /\ \A k \in 1..(Len(expected) - 1) : SubSeq(expected, 1, k) \in c.dirs_after
           /\ c.dirs_before \subseteq c.dirs_after

\* in/v/a.pdf was moved with base "in" to proc/v/a.pdf, proc/v being made by
\* the call, and in/v/c.v1.pdf with base in/v to proc/c.v1.pdf
C14_Witness ==
    /\ Len(moves) = 2
    /\ moves[1].source = InputDir \o <<DirV, NameA>>
    /\ moves[1].input_base_dir = Some(InputDir)
    /\ moves[1].destination = ProcessedDir \o <<DirV, NameA>>
    /\ ProcessedDir \o <<DirV>> \notin moves[1].dirs_before
    /\ ProcessedDir \notin moves[1].dirs_before
    /\ moves[2].source = InputDir \o <<DirV, NameC>>
    /\ moves[2].input_base_dir = Some(InputDir \o <<DirV>>)
    /\ moves[2].destination = ProcessedDir \o <<NameC>>

----------------------------------------------------------------------------
(* Properties of the reports, checked under SpecReport *)

\* The files the records are of
ReportFiles == {all_flat_records[i].file_path : i \in 1..Len(all_flat_records)}

\* The first of the records of a file
FirstRecordOf(file_path) ==
    all_flat_records[CHOOSE i \in 1..Len(all_flat_records) :
                        /\ all_flat_records[i].file_path = file_path
                        /\ \A j \in 1..(i - 1) :
                              all_flat_records[j].file_path # file_path]

\* The files whose first record has the OCR-only vendor, those of the others
\* whose first record has the "No line items found" description, and the rest
OcrOnlyFiles ==
    {f \in ReportFiles : FirstRecordOf(f).vendor_name = Some(OcrOnlyVendor)}
FailedFiles ==
    {f \in ReportFiles \ OcrOnlyFiles : FirstRecordOf(f).item_description = NoLineItems}
SuccessfulFiles == ReportFiles \ (OcrOnlyFiles \cup FailedFiles)

(* C19: analyze_processing_results counts each file of the records once, by *)
(* the first of its records alone: as OCR-only if that record's vendor is   *)
(* "Unknown (OCR only)", else as failed if its description is "No line      *)
(* items found", else as successful; a first record with both sentinels     *)
(* counts as OCR-only.                                                      *)
C19_ClassifiedByFirstRecord ==
    (pc = "report_done" /\ all_flat_records # <<>>) =>
        /\ Get(stats).ocr_only = Cardinality(OcrOnlyFiles)
        /\ Get(stats).failed_extractions = Cardinality(FailedFiles)
        /\ Get(stats).successful_extractions = Cardinality(SuccessfulFiles)

\* The first record of a file has both sentinels and its second record
\* neither; the first record of another file is a failed one: one file is
\* counted OCR-only, one failed
C19_Witness ==
    /\ pc = "report_done"
    /\ Len(all_flat_records) = 3
    /\ all_flat_records[1] = ReportRecord(PathStr(InputDir \o <<NameA>>),
                                          Some(OcrOnlyVendor), NoLineItems)
    /\ all_flat_records[2] = ReportRecord(PathStr(InputDir \o <<NameB>>),
                                          Some(Acme), NoLineItems)
    /\ all_flat_records[3] = ReportRecord(PathStr(InputDir \o <<NameA>>),
                                          Some(Acme), Widget)
    /\ Get(stats).ocr_only = 1
    /\ Get(stats).failed_extractions = 1
    /\ Get(stats).successful_extractions = 0

(* C20: for every list of records, the empty one too,                       *)
(* analyze_processing_results returns the number of files, the three        *)
(* counts, which add up to it, the success rate successful / total * 100    *)
(* (0 without files) and the number of records; all of them are 0 for the   *)
(* empty list.                                                              *)
C20_AnalysisTotals ==
    pc = "report_done" =>
        LET s == Get(stats)
        IN /\ DOMAIN s = {"total_files", "successful_extractions", "ocr_only",
                          "failed_extractions", "success_rate", "total_line_items"}
           /\ s.total_files = Cardinality(ReportFiles)
           /\ s.ocr_only = Cardinality(OcrOnlyFiles)
           /\ s.failed_extractions = Cardinality(FailedFiles)
           /\ s.successful_extractions = Cardinality(SuccessfulFiles)
           /\ s.successful_extractions + s.ocr_only + s.failed_extractions
                 = s.total_files
           /\ s.success_rate.num * s.total_files
                 = s.successful_extractions * 100 * s.success_rate.den
           /\ s.total_files = 0 => s.success_rate.num = 0
           /\ s.total_line_items = Len(all_flat_records)

(* C28: for every list of records that is not empty,                        *)
(* analyze_processing_results puts each file in exactly one of the three    *)
(* classes: the three counts add up to total_files, 1 <= total_files <=     *)
(* total_line_items, and the success rate is 100 exactly when no file is    *)
(* OCR-only or failed.                                                      *)
C28_CountsPartitionFiles ==
    (pc = "report_done" /\ all_flat_records # <<>>) =>
        LET s == Get(stats)
        IN /\ \A f \in ReportFiles :
                 Cardinality({c \in {"successful", "ocr_only", "failed"} :
                                 Classify(FirstRecordOf(f)) = c}) = 1
           /\ s.successful_extractions + s.ocr_only + s.failed_extractions
                 = s.total_files
           /\ 1 <= s.total_files
           /\ s.total_files <= s.total_line_items
           /\ (s.success_rate = [num |-> 100, den |-> 1])
                 <=> (s.ocr_only = 0 /\ s.failed_extractions = 0)

\* Two files in three records, one successful and one OCR-only: the rate is 50
C28_Witness ==
    /\ pc = "report_done"
    /\ Len(all_flat_records) = 3
    /\ Get(stats).total_files = 2
    /\ Get(stats).total_line_items = 3
    /\ Get(stats).successful_extractions = 1
    /\ Get(stats).ocr_only = 1
    /\ Get(stats).success_rate = [num |-> 50, den |-> 1]

----------------------------------------------------------------------------
(* Properties of the financial summary, checked under SpecSummary *)

\* The items of invoice_totals that generate_financial_summary computes of
\* the records: the files that contribute a total, and the totals
Contributions == InvoiceTotals(SelectSeq(all_flat_records, ValidRecord))

\* The total amount of the first of the records of a file that has one,
\* neither null nor zero
FirstAmountOf(file_path) ==
    LET with_amount == SelectSeq(FileRecords(all_flat_records, file_path),
                                 LAMBDA r : TruthyAmount(r.total_amount))
    IN with_amount[1].total_amount

(* C21: every file that contributes a total to generate_financial_summary   *)
(* is a file that the classification by the first record labels successful  *)
(* and that has a total amount neither null nor zero; it contributes one    *)
(* total, that of its first occurrence with an amount; a file classified    *)
(* OCR-only or failed never contributes.                                    *)
C21_ContributorsAreSuccessfulFiles ==
    pc = "call_table" =>
        /\ "total_value" \in DOMAIN Get(financial_summary) =>
              Get(financial_summary).total_invoices_with_amounts = Len(Contributions)
        /\ \A i \in 1..Len(Contributions) :
              /\ Contributions[i].file_path \in SuccessfulFiles
              /\ Contributions[i].file_path \notin OcrOnlyFiles \cup FailedFiles
              /\ Some(Contributions[i].total_amount)
                    = FirstAmountOf(Contributions[i].file_path)
              /\ \A j \in 1..Len(Contributions) :
                    Contributions[j].file_path = Contributions[i].file_path => j = i

\* A row qualifies for the financial summary: its total amount is neither
\* null nor zero, its vendor is not the OCR-only sentinel and its description
\* is not the "No line items found" sentinel
Qualifies(r) ==
    /\ r.total_amount # None
    /\ r.total_amount # Some(0)
    /\ r.vendor_name # Some(OcrOnlyVendor)
    /\ r.item_description # NoLineItems

NoRowQualifies == \A i \in 1..Len(all_flat_records) : ~Qualifies(all_flat_records[i])

\* The result is the explanatory message alone
MessageAlone ==
    /\ DOMAIN Get(financial_summary) = {"message"}
    /\ Get(financial_summary).message = NoFinancialData

QualifyingFiles ==
    {all_flat_records[i].file_path :
        i \in {j \in 1..Len(all_flat_records) : Qualifies(all_flat_records[j])}}
FirstQualifying(file_path) ==
    all_flat_records[CHOOSE i \in 1..Len(all_flat_records) :
                        /\ all_flat_records[i].file_path = file_path
                        /\ Qualifies(all_flat_records[i])
                        /\ \A j \in 1..(i - 1) :
                              ~(/\ all_flat_records[j].file_path = file_path
                                /\ Qualifies(all_flat_records[j]))]
TotalOf(file_path) == Get(FirstQualifying(file_path).total_amount)

RECURSIVE SumOfTotals(_)
SumOfTotals(files) ==
    IF files = {} THEN 0
    ELSE LET f == CHOOSE f \in files : TRUE
         IN TotalOf(f) + SumOfTotals(files \ {f})

\* The count, total, average, minimum and maximum of the summary are those
\* of the totals of the qualifying files
NumbersOfQualifyingFiles ==
    LET s == Get(financial_summary)
    IN /\ s.total_invoices_with_amounts = Cardinality(QualifyingFiles)
       /\ s.total_invoices_with_amounts >= 1
       /\ s.total_value = SumOfTotals(QualifyingFiles)
       /\ s.average_invoice_value.den >= 1
       /\ s.average_invoice_value.num * s.total_invoices_with_amounts
             = s.total_value * s.average_invoice_value.den
       /\ \E f \in QualifyingFiles : s.min_invoice = TotalOf(f)
       /\ \A f \in QualifyingFiles : s.min_invoice <= TotalOf(f)
       /\ \E f \in QualifyingFiles : s.max_invoice = TotalOf(f)
       /\ \A f \in QualifyingFiles : s.max_invoice >= TotalOf(f)
       /\ s.min_invoice * s.average_invoice_value.den <= s.average_invoice_value.num
       /\ s.average_invoice_value.num <= s.max_invoice * s.average_invoice_value.den

\* The currencies listed are distinct and are those of the set
CurrenciesAre(set) ==
    LET currencies == Get(financial_summary).currencies
    IN /\ {currencies[i] : i \in 1..Len(currencies)} = set
       /\ Len(currencies) = Cardinality(set)

----------------------------------------------------------------------------
(* Properties of the summary table, checked under SpecSummary *)

\* The place of the first record of a file, and the file whose first record
\* comes i-th among the first records of the files
FirstIndexOf(file_path) ==
    CHOOSE i \in 1..Len(all_flat_records) :
        /\ all_flat_records[i].file_path = file_path
        /\ \A j \in 1..(i - 1) : all_flat_records[j].file_path # file_path
FileAt(i) ==
    CHOOSE f \in ReportFiles :
        Cardinality({g \in ReportFiles : FirstIndexOf(g) < FirstIndexOf(f)}) = i - 1

\* The number of rows of the table with a status
RowsWithStatus(status) ==
    Cardinality({i \in 1..Len(Get(summary_table)) :
                    Get(summary_table)[i]["Processing Status"] = status})

(* C24: generate_invoice_summary_table gives one row per distinct           *)
(* file_path, whose "Line Items" is the number of records of that file and  *)
(* whose status and quality are one of (AI Extracted, Good), (OCR Only,     *)
(* Poor), (Failed, None); the number of rows with each status is the count  *)
(* that analyze_processing_results returns of the same records.             *)
C24_TableRowPerFile ==
    pc = "call_report" =>
        LET table == Get(summary_table)
            counts == AnalyzeProcessingResults(all_flat_records)
        IN /\ Len(table) = Cardinality(ReportFiles)
           /\ \A i \in 1..Len(table) :
                 /\ table[i]["File"] = FileDisplay(FileAt(i))
                 /\ table[i]["Line Items"]
                       = Cardinality({j \in 1..Len(all_flat_records) :
                                         all_flat_records[j].file_path = FileAt(i)})
                 /\ <<table[i]["Processing Status"], table[i]["Extraction Quality"]>>
                       \in {<<AiExtractedStatus, GoodQuality>>,
                            <<OcrOnlyStatus, PoorQuality>>,
                            <<FailedStatus, NoneQuality>>}
           /\ RowsWithStatus(AiExtractedStatus) = counts.successful_extractions
           /\ RowsWithStatus(OcrOnlyStatus) = counts.ocr_only
           /\ RowsWithStatus(FailedStatus) = counts.failed_extractions

\* Three records of two files, one file with two records and classified
\* successful, the other OCR-only: two rows, with 2 and 1 line items
C24_Witness ==
    /\ pc = "call_report"
    /\ Len(all_flat_records) = 3
    /\ Len(Get(summary_table)) = 2
    /\ Get(summary_table)[1]["Line Items"] = 2
    /\ Get(summary_table)[1]["Processing Status"] = AiExtractedStatus
    /\ Get(summary_table)[1]["Extraction Quality"] = GoodQuality
    /\ Get(summary_table)[2]["Line Items"] = 1
    /\ Get(summary_table)[2]["Processing Status"] = FailedStatus
    /\ Get(summary_table)[2]["Extraction Quality"] = NoneQuality

\* The descriptions of the records of a file that are products (neither of
\* the two sentinels), each once, in the order of their first occurrence
RECURSIVE DistinctProducts(_, _)
DistinctProducts(file_records, seen) ==
    IF file_records = <<>> THEN <<>>
    ELSE LET d == file_records[1].item_description
         IN IF d = NoLineItems \/ StartsWith(d, OcrTextPrefix) \/ d \in seen
            THEN DistinctProducts(Tail(file_records), seen)
            ELSE <<d>> \o DistinctProducts(Tail(file_records), seen \cup {d})

(* C25: the Products cell of a file is the "; "-joined list of at most 2    *)
(* distinct product descriptions of the file, the two sentinel descriptions *)
(* left out, followed by "..." exactly when the file has more than 2        *)
(* distinct product descriptions, and "N/A" when it has none.               *)
C25_ProductsPreview ==
    pc = "call_report" =>
        \A i \in 1..Len(Get(summary_table)) :
            LET distinct == DistinctProducts(
                                SelectSeq(all_flat_records,
                                          LAMBDA r : r.file_path = FileAt(i)), {})
            IN Get(summary_table)[i]["Products"] =
                  IF distinct = <<>> THEN NotAvailable
                  ELSE Join(ProductSeparator, SubSeq(distinct, 1, Min(2, Len(distinct))))
                       \o (IF Len(distinct) > 2 THEN Ellipsis ELSE <<>>)

----------------------------------------------------------------------------
(* Properties of the report, checked under SpecRender *)

(* C26: two calls of generate_detailed_summary_report with the same rows,   *)
(* the same stats and the same source label under the same reading of the   *)
(* clock give the same text, byte for byte, the order of the currencies     *)
(* and of the lines of the two breakdowns included.                         *)
C26_ReportIsDeterministic ==
    \A i, j \in 1..Len(reports) :
        reports[i].timestamp = reports[j].timestamp =>
            /\ reports[i].raised = reports[j].raised
            /\ reports[i].text = reports[j].text

----------------------------------------------------------------------------
(* Properties of the order of the batch run and of its retries, checked     *)
(* under Spec                                                                *)

\* The rows of the collection that belong to the file
RowsOf(file_path) ==
    {i \in 1..Len(all_flat_records) : all_flat_records[i].file_path = PathStr(file_path)}

\* The collection is grouped by file, the files in ascending path order
GroupedByFile ==
    \A i, j \in 1..Len(all_flat_records) :
        i < j => \/ all_flat_records[i].file_path = all_flat_records[j].file_path
                 \/ StrLess(all_flat_records[i].file_path, all_flat_records[j].file_path)

\* The files are handled one at a time in discovery order: each outcome so far
\* is that of the file at its position, every row belongs to a file up to the
\* current one, and a task is run again no more often than its retries allow
OneFileAtATime ==
    /\ \A i \in 1..Len(outcomes) : outcomes[i].file = invoice_files[i]
    /\ \A i, j \in 1..Len(outcomes) : i # j => outcomes[i].file # outcomes[j].file
    /\ \A i \in 1..Len(all_flat_records) :
          \E k \in 1..Len(invoice_files) :
             /\ all_flat_records[i].file_path = PathStr(invoice_files[k])
             /\ k <= Len(outcomes) + 1
    /\ attempt <= (IF pc = "text" THEN TextRetries
                   ELSE IF pc = "structure" THEN StructureRetries ELSE 0)
    /\ processed_count <= Len(outcomes)

\* A step that repeats a run of a task changes nothing of the batch
RetryKeepsBatch ==
    attempt' > attempt =>
        UNCHANGED <<pc, idx, outcomes, all_flat_records, processed_count, fs, dirs>>

\* A step that changes the collection appends the rows of the current file,
\* which has no row in it yet
AppendsOncePerFile ==
    all_flat_records' # all_flat_records =>
        /\ pc = "flatten"
        /\ RowsOf(invoice_files[idx]) = {}
        /\ all_flat_records' = all_flat_records \o FlattenInvoiceData(Get(invoice), now)

\* A step that changes processed_count adds one and ends the loop body of the
\* current file, which had not ended before
CountsOncePerFile ==
    processed_count' # processed_count =>
        /\ processed_count' = processed_count + 1
        /\ Len(outcomes) = idx - 1
        /\ outcomes' = Append(outcomes, [file |-> invoice_files[idx], kind |-> "processed"])

(* C27: the files are processed one at a time in the sorted discovery       *)
(* order; with the retries of the text stage (up to 2) and of the structure *)
(* stage (up to 1) a repeated run changes nothing of the batch, the rows of *)
(* a file are appended to the collection at most once and the file is      *)
(* counted as processed at most once, so the rows of the collection are     *)
(* grouped by file in ascending path order.                                 *)
C27_SequentialDespiteRetries ==
    /\ [](OneFileAtATime /\ GroupedByFile)
    /\ [][RetryKeepsBatch /\ AppendsOncePerFile /\ CountsOncePerFile]_vars

\* The first file was processed and its rows collected; the structure stage
\* of the second file raised and is being run again
C27_Witness ==
    /\ pc = "structure"
    /\ idx = 2
    /\ attempt = StructureRetries
    /\ outcomes[1].kind = "processed"
    /\ processed_count = 1
    /\ RowsOf(invoice_files[1]) # {}

----------------------------------------------------------------------------
(* Properties of the files of the input tree during the batch run, checked  *)
(* under Spec                                                                *)

\* The files of the input tree
InputTreeFiles(files) == {q \in DOMAIN files : StartsWith(q, InputDir)}

\* The discovered files whose loop body ended with the file counted as
\* processed
CountedAsProcessed == {outcomes[i].file : i \in OutcomesOfKind({"processed"})}

\* A step takes a file from the input tree only as the archival of the
\* current file that succeeds and counts it; it puts no file there and leaves
\* the content of the files that stay
LeavesOnlyByArchival ==
    /\ \A q \in InputTreeFiles(fs) :
          IF q \in DOMAIN fs'
          THEN fs'[q] = fs[q]
          ELSE /\ pc = "move"
               /\ q = invoice_files[idx]
               /\ processed_count' = processed_count + 1
               /\ outcomes' = Append(outcomes, [file |-> q, kind |-> "processed"])
               /\ \E d \in DOMAIN fs' \ DOMAIN fs :
                     StartsWith(d, ProcessedDir) /\ fs'[d] = fs[q]
    /\ InputTreeFiles(fs') \subseteq InputTreeFiles(fs)

\* The discovered files that are not at their path are those counted as
\* processed; a file that was skipped or whose processing raised is at its
\* path with its content
RemainingAreNotProcessed ==
    /\ {invoice_files[i] : i \in 1..Len(invoice_files)} \ DOMAIN fs = CountedAsProcessed
    /\ Cardinality(CountedAsProcessed) = processed_count
    /\ \A i \in OutcomesOfKind(RaisedKinds \cup {"no_text", "no_invoice"}) :
          /\ outcomes[i].file \in DOMAIN fs
          /\ fs[outcomes[i].file] = PathStr(outcomes[i].file)

(* C29: during a batch run a file leaves its path in the input tree only    *)
(* through an archival step that succeeds; files with unsupported           *)
(* extensions, files skipped for want of text or of an invoice and files    *)
(* whose processing raised before or during archival stay at their path, so *)
(* the files still in the input tree are those not counted as processed.    *)
C29_FilesLeaveOnlyByArchival ==
    /\ []RemainingAreNotProcessed
    /\ [][LeavesOnlyByArchival]_vars

\* The archival of the first file raised and the file is at its path; the
\* second file was archived and has left the input tree
C29_Witness ==
    /\ pc = "done"
    /\ Len(outcomes) = 2
    /\ outcomes[1].kind = "move_raised"
    /\ outcomes[2].kind = "processed"
    /\ InputTreeFiles(fs) = {invoice_files[1]}
    /\ processed_count = 1

----------------------------------------------------------------------------
(* Properties of two calls of move_processed_file that run side by side,    *)
(* checked under SpecRace                                                    *)

\* The call has left the conflict loop with the destination it selected
HasSelected(m) == movers[m].pc \in {"rename", "returned", "raised"}

(* C30: two calls of move_processed_file whose sources have the same        *)
(* destination, run side by side: whatever the interleaving of their        *)
(* existence tests and renames, they select different destinations and the  *)
(* file each call archived is at its destination, not replaced by the       *)
(* other's.                                                                 *)
C30_ConcurrentMovesKeepBoth ==
    pc = "moving" =>
        /\ (HasSelected(1) /\ HasSelected(2)) =>
               movers[1].destination # movers[2].destination
        /\ \A m \in DOMAIN movers :
               movers[m].pc = "returned" =>
                  /\ Get(movers[m].destination) \in DOMAIN fs
                  /\ fs[Get(movers[m].destination)] = PathStr(movers[m].source)

====
